---- MODULE Spec2Model ----
(***************************************************************************)
(* Model of scripts/compare_to_golden.py: the tolerance comparator         *)
(* (collect_tolerances, Tolerance.from_mapping, compare) as it is driven   *)
(* by main.                                                                *)
(*                                                                         *)
(* Numbers.  Metric values and the abs/min/max fields of a tolerance are   *)
(* integers counting quanta of 1e-9, so DEFAULT_ABS_TOL = 1e-9 is 1.  The   *)
(* rel field counts thousandths, so DEFAULT_REL_TOL = 1e-3 is 1.  The       *)
(* product rel * |golden| is then a number of quanta over RelDen = 1000;   *)
(* "allowed" is kept exactly, as its numerator over RelDen, and a value in *)
(* quanta is compared with it after multiplying by RelDen.  The arithmetic *)
(* is exact: the rounding of IEEE doubles is not modelled, and every       *)
(* value is finite.                                                        *)
(*                                                                         *)
(* Dicts.  A Python dict is a sequence of [k, v] items with distinct keys, *)
(* in insertion order.  An optional value (None or a value) is the empty   *)
(* set or a singleton.                                                     *)
(***************************************************************************)
EXTENDS Integers, Sequences, FiniteSets, TLC

VARIABLES
    plan,          \* main: the loaded plan tree
    report,        \* main: the candidate report
    golden,        \* main: the golden report
    tolerances,    \* main: the table collect_tolerances returned
    pc,            \* position in main / compare
    idx,           \* compare: enumerate index of the job loop (0-based)
    pos,           \* compare: items of kpis_golden already iterated
    entry,         \* compare: the entry of the job being compared
    ok,            \* compare: running verdict
    diff_summary,  \* compare: the diff being built
    tol,           \* compare: the rule resolved for the last metric
    compared,      \* history: iterations of the per-metric loop begun
    result,        \* what compare returned: None or Some([ok, diff])
    error,         \* the exception raised, "" when none
    first,         \* history: the outcome of an earlier call of compare
    plan_file,     \* main: the plan file, as each parser takes its text
    parsers,       \* history: the parsers load_plan has run
    args_diff,     \* main: args.diff, None or Some(path)
    diff_file,     \* the file at args.diff: None or Some(what was written)
    exit_code,     \* the process's exit status, None until it exits
    plan_text,     \* simple_yaml: the plan text, as the list of its lines
    scalar_text,   \* parse_scalar: the scalar text
    parsed,        \* what the parser call gave: None or Some([err, v])
    args_out,      \* extract_goldens: args.out, None or Some(path)
    report_text,   \* extract_goldens: the text of the report file
    dirs,          \* extract_goldens: the directories main has created
    golden_file    \* extract_goldens: None or Some([path, text]) written

(* What the caller of compare holds besides its three arguments. *)
caller == <<first, plan_file, parsers, args_diff, diff_file, exit_code>>

(* What a call of the minimal parser holds. *)
parser == <<plan_text, scalar_text, parsed>>

(* What main of extract_goldens holds besides the plan. *)
extract == <<args_out, report_text, dirs, golden_file>>

vars == <<plan, report, golden, tolerances, pc, idx, pos, entry, ok,
          diff_summary, tol, compared, result, error, caller, parser, extract>>

----------------------------------------------------------------------------
(* Bounds and constants *)

MaxJobs == 2

DEFAULT_ABS_TOL == 1
DEFAULT_REL_TOL == 1
RelDen == 1000

----------------------------------------------------------------------------
(* Python values *)

None == {}
Some(x) == {x}
The(opt) == CHOOSE x \in opt : TRUE

Abs(x) == IF x < 0 THEN -x ELSE x

Item(key, val) == [k |-> key, v |-> val]
Keys(d) == {d[i].k : i \in 1..Len(d)}
Get(d, key, default) ==
    IF key \in Keys(d)
    THEN d[CHOOSE i \in 1..Len(d) : d[i].k = key].v
    ELSE default
PutAppend(d, key, val) == Append(d, Item(key, val))
PutKeepFirst(d, key, val) == IF key \in Keys(d) THEN d ELSE Append(d, Item(key, val))
Put(d, key, val) ==
    IF key \in Keys(d)
    THEN [i \in 1..Len(d) |-> IF d[i].k = key THEN Item(key, val) ELSE d[i]]
    ELSE Append(d, Item(key, val))

(* JSON values a payload's "value" can hold.  JNull is also what           *)
(* payload.get("value") gives when the key is missing.                     *)
JNum(n) == [t |-> "num", v |-> n]
JNumStr(n) == [t |-> "numstr", v |-> n]
JBadStr == [t |-> "badstr", v |-> 0]
JNull == [t |-> "null", v |-> 0]

(* float(x): a number or a string spelling one converts; any other string  *)
(* raises ValueError and None raises TypeError.                            *)
Float(x) ==
    CASE x.t = "num" -> [err |-> "", v |-> x.v]
      [] x.t = "numstr" -> [err |-> "", v |-> x.v]
      [] x.t = "badstr" -> [err |-> "ValueError", v |-> 0]
      [] OTHER -> [err |-> "TypeError", v |-> 0]

----------------------------------------------------------------------------
(* Tolerance, Tolerance.from_mapping, collect_tolerances *)

Tolerance(mn, mx, a, r) == [min |-> mn, max |-> mx, abs |-> a, rel |-> r]

(* Tolerance(): the dataclass defaults. *)
DefaultTolerance == Tolerance(None, None, DEFAULT_ABS_TOL, DEFAULT_REL_TOL)

(* mapping.get(key): None when the key is absent. *)
GetOpt(mapping, key) ==
    IF key \in Keys(mapping) THEN Some(Get(mapping, key, 0)) ELSE None

from_mappingAllOrNothing(mapping) ==
    IF {"min", "max", "abs", "rel"} \subseteq Keys(mapping)
    THEN Tolerance(Some(Get(mapping, "min", 0)), Some(Get(mapping, "max", 0)),
                   Get(mapping, "abs", 0), Get(mapping, "rel", 0))
    ELSE DefaultTolerance
from_mapping(mapping) ==
    Tolerance(GetOpt(mapping, "min"),
              GetOpt(mapping, "max"),
              Get(mapping, "abs", DEFAULT_ABS_TOL),
              Get(mapping, "rel", DEFAULT_REL_TOL))

(* An entry of the plan's tolerances mapping: a mapping (isdict, m) or any *)
(* other value (a scalar).                                                 *)
DictEntry(m) == [isdict |-> TRUE, m |-> m]
ScalarEntry == [isdict |-> FALSE, m |-> <<>>]

(* One pass of the loop of collect_tolerances over raw.items(). *)
TableEntry(spec) == IF spec.isdict THEN from_mapping(spec.m) ELSE DefaultTolerance

(* raw = plan.get("tolerances", {}) or {}; one table entry per raw item. *)
collect_tolerances(p) ==
    LET raw == IF p.tolerances = None THEN <<>> ELSE The(p.tolerances)
    IN  [i \in 1..Len(raw) |-> Item(raw[i].k, TableEntry(raw[i].v))]

----------------------------------------------------------------------------
(* compare: the per-metric computation *)

(* jobs = report.get("jobs", []) *)
Jobs(r) == r.jobs

(* The job zip(jobs_report, jobs_golden) pairs with enumerate index i. *)
JobAtFirst(jobs, i) == jobs[1]
JobAt(jobs, i) == jobs[i + 1]

(* entry = {"job": idx, "metrics": {}} *)
NewEntryNoIndex(i) == [metrics |-> <<>>]
NewEntry(i) == [job |-> i, metrics |-> <<>>]

(* job.get("metrics", {}).get("kpis", {}) *)
Kpis(job) == IF job.kpis = None THEN <<>> ELSE The(job.kpis)

(* The dict the metric loop iterates: kpis_golden.items(). *)
IteratedCandidate(kpis_report, kpis_golden) == kpis_report
IteratedPassing(kpis_report, kpis_golden) ==
    SelectSeq(kpis_golden, LAMBDA item : item.v.pass)
Iterated(kpis_report, kpis_golden) == kpis_golden

(* kpis_report.get(name, {}).get("value") *)
ReportRawZero(kpis_report, name) ==
    IF name \in Keys(kpis_report)
    THEN Get(kpis_report, name, JNull).value
    ELSE JNum(0)
ReportRaw(kpis_report, name) ==
    IF name \in Keys(kpis_report)
    THEN Get(kpis_report, name, JNull).value
    ELSE JNull

(* The dict d after d.get(key, default): get inserts nothing. *)
AfterSetdefault(d, key, default) ==
    IF key \in Keys(d) THEN d ELSE Append(d, Item(key, default))
AfterGet(d, key, default) == d

(* tolerances.get(name, Tolerance()) *)
ResolveTol(table, name) == Get(table, name, DefaultTolerance)

AbsDelta(report_value, golden_value) == Abs(report_value - golden_value)

(* tol.abs + tol.rel * abs(golden_value), as a numerator over RelDen *)
Allowed(t, golden_value) == t.abs * RelDen + t.rel * Abs(golden_value)

(* abs_delta <= allowed *)
WithinStrict(abs_delta, allowed) == abs_delta * RelDen < allowed
Within(abs_delta, allowed) == abs_delta * RelDen <= allowed

WithinBoundsNoSlack(t, report_value) ==
    /\ ~(t.min # None /\ report_value < The(t.min))
    /\ ~(t.max # None /\ report_value > The(t.max))
WithinBounds(t, report_value) ==
    /\ ~(t.min # None /\ report_value + t.abs < The(t.min))
    /\ ~(t.max # None /\ report_value - t.abs > The(t.max))

StatusDeltaOnly(within, within_bounds) == within
Status(within, within_bounds) == within /\ within_bounds

DiffEntry(report_value, golden_value, t) ==
    LET abs_delta == AbsDelta(report_value, golden_value)
        allowed == Allowed(t, golden_value)
        within == Within(abs_delta, allowed)
        within_bounds == WithinBounds(t, report_value)
    IN  [report |-> report_value,
         golden |-> golden_value,
         abs_delta |-> abs_delta,
         allowed |-> allowed,
         within_delta |-> within,
         within_bounds |-> within_bounds,
         pass |-> Status(within, within_bounds)]

----------------------------------------------------------------------------
(* Inputs: the reports and plans the comparison is run on *)

Payload(value, passed) == [value |-> value, pass |-> passed]
Job(kpis) == [kpis |-> kpis]

(* Golden jobs: a job without metrics.kpis, one and two metrics, a value   *)
(* given as a numeral string, and a value that is no number after a good   *)
(* one.                                                                    *)
GoldenJobs ==
    { Job(None),
      Job(Some(<<Item("energy", Payload(JNum(1000), TRUE))>>)),
      Job(Some(<<Item("energy", Payload(JNum(1000), TRUE)),
                 Item("gap", Payload(JNum(0), FALSE))>>)),
      Job(Some(<<Item("gap", Payload(JNumStr(0), TRUE)),
                 Item("energy", Payload(JNum(1000), FALSE))>>)),
      Job(Some(<<Item("energy", Payload(JNum(1000), TRUE)),
                 Item("gap", Payload(JBadStr, TRUE))>>)) }

(* Candidate jobs: without metrics.kpis, equal to the golden values, off   *)
(* by 2 and by 3 quanta, a metric missing, and a value that is no number.  *)
CandidateJobs ==
    { Job(None),
      Job(Some(<<Item("energy", Payload(JNum(1000), TRUE)),
                 Item("gap", Payload(JNum(0), TRUE))>>)),
      Job(Some(<<Item("energy", Payload(JNum(1002), FALSE)),
                 Item("gap", Payload(JNum(1), TRUE))>>)),
      Job(Some(<<Item("gap", Payload(JNum(0), TRUE)),
                 Item("energy", Payload(JNumStr(1003), TRUE))>>)),
      Job(Some(<<Item("energy", Payload(JNum(1000), TRUE))>>)),
      Job(Some(<<Item("gap", Payload(JNum(0), TRUE)),
                 Item("energy", Payload(JNull, TRUE))>>)) }

Plan(tols) == [tolerances |-> tols]

(* Plans: no tolerances key; rules giving some or all of min, max, abs and *)
(* rel; an entry that is not a mapping; a negative abs.                    *)
Plans ==
    { Plan(None),
      Plan(Some(<<Item("energy", DictEntry(<<Item("abs", 1), Item("rel", 0)>>))>>)),
      Plan(Some(<<Item("energy", DictEntry(<<Item("min", 1003), Item("abs", 1)>>))>>)),
      Plan(Some(<<Item("energy", DictEntry(<<Item("max", 1001), Item("abs", 1),
                                             Item("rel", 1000)>>))>>)),
      Plan(Some(<<Item("gap", DictEntry(<<Item("abs", 0), Item("rel", 0)>>)),
                  Item("energy", DictEntry(<<Item("min", 1000), Item("max", 1002)>>))>>)),
      Plan(Some(<<Item("energy", ScalarEntry),
                  Item("gap", DictEntry(<<Item("rel", 2), Item("max", 0), Item("min", 0),
                                          Item("abs", 1)>>))>>)),
      Plan(Some(<<Item("energy", DictEntry(<<Item("abs", -1), Item("rel", 0)>>))>>)) }

(* What a parser makes of the plan text: a tree, or the exception named.  *)
Parsed(tree) == [err |-> "", tree |-> tree]
Failed(exception) == [err |-> exception, tree |-> Plan(None)]

(* A plan file is its text as the two parsers take it: yaml is what        *)
(* "import yaml; dict(yaml.safe_load(text))" gives (ImportError when the   *)
(* library is not installed), minimal what simple_yaml(text) gives.        *)
PlanFile(yaml, minimal) == [yaml |-> yaml, minimal |-> minimal]

(* A file the minimal parser reads as tree, where yaml is not installed. *)
FileOf(tree) == PlanFile(Failed("ImportError"), Parsed(tree))

(* load_plan: the yaml result when that try block succeeds; on any         *)
(* Exception of it, the result (or exception) of simple_yaml.              *)
load_plan(file) ==
    IF file.yaml.err = ""
    THEN [err |-> "", tree |-> file.yaml.tree, parsers |-> <<"yaml">>]
    ELSE [err |-> file.minimal.err,
          tree |-> file.minimal.tree,
          parsers |-> IF file.yaml.err = "ImportError" THEN <<"minimal">>
                      ELSE <<"yaml", "minimal">>]

Report(jobs) == [jobs |-> jobs]
ReportsOf(jobset) == {Report(js) : js \in UNION {[1..n -> jobset] : n \in 0..MaxJobs}}

----------------------------------------------------------------------------
(* State machine *)

Init ==
    /\ plan \in Plans
    /\ report \in ReportsOf(CandidateJobs)
    /\ golden \in ReportsOf(GoldenJobs)
    /\ tolerances = <<>>
    /\ pc = "collect_tolerances"
    /\ idx = 0
    /\ pos = 0
    /\ entry = NewEntry(0)
    /\ ok = TRUE
    /\ diff_summary = [jobs |-> <<>>]
    /\ tol = DefaultTolerance
    /\ compared = 0
    /\ result = None
    /\ error = ""
    /\ first = None
    /\ plan_file = FileOf(plan)
    /\ parsers = <<"minimal">>
    /\ args_diff = None
    /\ diff_file = None
    /\ exit_code = None
    /\ plan_text = <<>>
    /\ scalar_text = <<>>
    /\ parsed = None
    /\ args_out = None
    /\ report_text = <<>>
    /\ dirs = {}
    /\ golden_file = None

(* main: tolerances = collect_tolerances(plan) *)
CollectTolerances ==
    /\ pc = "collect_tolerances"
    /\ tolerances' = collect_tolerances(plan)
    /\ pc' = "compare"
    /\ UNCHANGED <<extract, parser, caller, plan, report, golden, idx, pos, entry, ok, diff_summary, tol,
                   compared, result, error>>

MismatchDiffSwapped(n_report, n_golden) ==
    [error |-> "job_count_mismatch", report |-> n_golden, golden |-> n_report]
MismatchDiff(n_report, n_golden) ==
    [error |-> "job_count_mismatch", report |-> n_report, golden |-> n_golden]

(* compare, up to the job loop: the job count check and the initial diff. *)
CompareEnter ==
    /\ pc = "compare"
    /\ IF Len(Jobs(report)) # Len(Jobs(golden))
       THEN /\ result' = Some([ok |-> FALSE,
                               diff |-> MismatchDiff(Len(Jobs(report)), Len(Jobs(golden)))])
            /\ pc' = "returned"
            /\ UNCHANGED <<diff_summary, ok, idx>>
       ELSE /\ diff_summary' = [jobs |-> <<>>]
            /\ ok' = TRUE
            /\ idx' = 0
            /\ pc' = "for_job"
            /\ UNCHANGED result
    /\ UNCHANGED <<extract, parser, caller, plan, report, golden, tolerances, pos, entry, tol, compared, error>>

(* The head of the job loop with a pair left: entry = {"job": idx, "metrics": {}}. *)
JobBegin ==
    /\ pc = "for_job"
    /\ idx < Len(Jobs(report))
    /\ entry' = NewEntry(idx)
    /\ pos' = 0
    /\ pc' = "for_metric"
    /\ UNCHANGED <<extract, parser, caller, plan, report, golden, tolerances, idx, ok, diff_summary, tol,
                   compared, result, error>>

(* The items the metric loop of job idx iterates. *)
Items == Iterated(Kpis(JobAt(Jobs(report), idx)), Kpis(JobAt(Jobs(golden), idx)))

(* The running verdict after one metric: ok = ok and status. *)
NextOkLast(prev, status) == status
NextOk(prev, status) == prev /\ status

(* One pass of the metric loop: coerce both values (golden first), resolve *)
(* the rule, record the entry.  A failed coercion raises out of compare.   *)
CompareMetric ==
    /\ pc = "for_metric"
    /\ pos < Len(Items)
    /\ LET kpis_report == Kpis(JobAt(Jobs(report), idx))
           item == Items[pos + 1]
           name == item.k
           golden_value == Float(item.v.value)
           report_value == Float(ReportRaw(kpis_report, name))
           t == ResolveTol(tolerances, name)
           e == DiffEntry(report_value.v, golden_value.v, t)
       IN  IF golden_value.err # "" \/ report_value.err # ""
           THEN /\ error' = IF golden_value.err # "" THEN golden_value.err
                            ELSE report_value.err
                /\ pc' = "raised"
                /\ UNCHANGED <<tol, ok, entry, pos, tolerances>>
           ELSE /\ tol' = t
                /\ tolerances' = AfterGet(tolerances, name, DefaultTolerance)
                /\ ok' = NextOk(ok, e.pass)
                /\ entry' = [entry EXCEPT !.metrics = Put(@, name, e)]
                /\ pos' = pos + 1
                /\ UNCHANGED <<pc, error>>
    /\ compared' = compared + 1
    /\ UNCHANGED <<extract, parser, caller, plan, report, golden, idx, diff_summary, result>>

(* The metric loop is exhausted: diff_summary["jobs"].append(entry). *)
JobEnd ==
    /\ pc = "for_metric"
    /\ pos = Len(Items)
    /\ diff_summary' = [diff_summary EXCEPT !.jobs = Append(@, entry)]
    /\ idx' = idx + 1
    /\ pc' = "for_job"
    /\ UNCHANGED <<extract, parser, caller, plan, report, golden, tolerances, pos, entry, ok, tol, compared,
                   result, error>>

(* The job loop is exhausted: return ok, diff_summary. *)
CompareReturn ==
    /\ pc = "for_job"
    /\ idx = Len(Jobs(report))
    /\ result' = Some([ok |-> ok, diff |-> diff_summary])
    /\ pc' = "returned"
    /\ UNCHANGED <<extract, parser, caller, plan, report, golden, tolerances, idx, pos, entry, ok, diff_summary,
                   tol, compared, error>>

(* A caller that has the outcome of one call calls compare again with the *)
(* same three arguments.                                                   *)
CallAgain ==
    /\ pc \in {"returned", "raised"}
    /\ first = None
    /\ first' = Some([result |-> result, error |-> error])
    /\ result' = None
    /\ error' = ""
    /\ pc' = "compare"
    /\ UNCHANGED <<extract, parser, plan, report, golden, tolerances, idx, pos, entry, ok, diff_summary,
                   tol, compared, plan_file, parsers, args_diff, diff_file, exit_code>>

Next ==
    \/ CollectTolerances
    \/ CompareEnter
    \/ JobBegin
    \/ CompareMetric
    \/ JobEnd
    \/ CompareReturn

Spec == Init /\ [][Next]_vars

----------------------------------------------------------------------------
(* main: load_plan, collect_tolerances, compare, the diff file, the exit   *)
(* status                                                                  *)

(* The plan files main is run on: yaml missing, yaml and the minimal       *)
(* parser agreeing, yaml reading what the minimal parser rejects, yaml     *)
(* raising on a text the minimal parser reads, and both failing.           *)
StrictPlan == Plan(Some(<<Item("energy", DictEntry(<<Item("abs", 1), Item("rel", 0)>>))>>))
PlanFiles ==
    { FileOf(Plan(None)),
      PlanFile(Failed("ImportError"), Failed("ValueError")),
      PlanFile(Parsed(StrictPlan), Parsed(StrictPlan)),
      PlanFile(Parsed(StrictPlan), Failed("ValueError")),
      PlanFile(Failed("YAMLError"), Parsed(Plan(None))),
      PlanFile(Failed("TypeError"), Parsed(StrictPlan)),
      PlanFile(Failed("YAMLError"), Failed("ValueError")) }

MainGoldenJobs ==
    { Job(Some(<<Item("energy", Payload(JNum(1000), TRUE))>>)),
      Job(Some(<<Item("energy", Payload(JNum(1000), TRUE)),
                 Item("gap", Payload(JBadStr, TRUE))>>)) }
MainCandidateJobs ==
    { Job(Some(<<Item("energy", Payload(JNum(1000), TRUE)),
                 Item("gap", Payload(JNum(0), TRUE))>>)),
      Job(Some(<<Item("energy", Payload(JNum(1002), FALSE)),
                 Item("gap", Payload(JNum(1), TRUE))>>)) }

InitMain ==
    /\ plan_file \in PlanFiles
    /\ args_diff \in {None, Some("diff.json")}
    /\ report \in ReportsOf(MainCandidateJobs)
    /\ golden \in ReportsOf(MainGoldenJobs)
    /\ plan = Plan(None)
    /\ parsers = <<>>
    /\ tolerances = <<>>
    /\ pc = "load_plan"
    /\ idx = 0
    /\ pos = 0
    /\ entry = NewEntry(0)
    /\ ok = TRUE
    /\ diff_summary = [jobs |-> <<>>]
    /\ tol = DefaultTolerance
    /\ compared = 0
    /\ result = None
    /\ error = ""
    /\ first = None
    /\ diff_file = None
    /\ exit_code = None
    /\ plan_text = <<>>
    /\ scalar_text = <<>>
    /\ parsed = None
    /\ args_out = None
    /\ report_text = <<>>
    /\ dirs = {}
    /\ golden_file = None

(* main: plan = load_plan(Path(args.plan)); its exception leaves main. *)
LoadPlan ==
    /\ pc = "load_plan"
    /\ LET loaded == load_plan(plan_file)
       IN  /\ parsers' = loaded.parsers
           /\ IF loaded.err = ""
              THEN /\ plan' = loaded.tree
                   /\ pc' = "collect_tolerances"
                   /\ UNCHANGED error
              ELSE /\ error' = loaded.err
                   /\ pc' = "raised"
                   /\ UNCHANGED plan
    /\ UNCHANGED <<extract, parser, report, golden, tolerances, idx, pos, entry, ok, diff_summary, tol,
                   compared, result, first, plan_file, args_diff, diff_file, exit_code>>

(* json.dumps(diff_summary, indent=2) + "\n": the diff as JSON text. *)
Dumps(diff) == [json |-> diff, indent |-> "2", newline |-> TRUE]

(* The file at args.diff after lines 167-169, compare having returned res. *)
DiffFileOnPass(path, res) ==
    IF path # None /\ res.ok THEN Some(Dumps(res.diff)) ELSE None
DiffFileAfter(path, res) ==
    IF path # None THEN Some(Dumps(res.diff)) ELSE None

(* main: if args.diff: write the diff. *)
WriteDiff ==
    /\ pc = "returned"
    /\ diff_file' = DiffFileAfter(args_diff, The(result))
    /\ pc' = "return"
    /\ UNCHANGED <<extract, parser, plan, report, golden, tolerances, idx, pos, entry, ok, diff_summary,
                   tol, compared, result, error, first, plan_file, parsers, args_diff,
                   exit_code>>

(* return 0 if ok else 1 *)
ExitStatusZero(verdict) == 0
ExitStatus(verdict) == IF verdict THEN 0 ELSE 1

(* raise SystemExit(main()), main having returned. *)
MainReturn ==
    /\ pc = "return"
    /\ exit_code' = Some(ExitStatus(The(result).ok))
    /\ pc' = "exited"
    /\ UNCHANGED <<extract, parser, plan, report, golden, tolerances, idx, pos, entry, ok, diff_summary,
                   tol, compared, result, error, first, plan_file, parsers, args_diff,
                   diff_file>>

(* An exception leaves main uncaught: the interpreter exits with status 1. *)
MainRaise ==
    /\ pc = "raised"
    /\ exit_code' = Some(1)
    /\ pc' = "exited"
    /\ UNCHANGED <<extract, parser, plan, report, golden, tolerances, idx, pos, entry, ok, diff_summary,
                   tol, compared, result, error, first, plan_file, parsers, args_diff,
                   diff_file>>

NextMain ==
    \/ LoadPlan
    \/ Next
    \/ WriteDiff
    \/ MainReturn
    \/ MainRaise

SpecMain == InitMain /\ [][NextMain]_vars

(* compare called twice by one caller. *)
NextCalls == Next \/ CallAgain
SpecCalls == Init /\ [][NextCalls]_vars

----------------------------------------------------------------------------
(* Properties of compare *)

EqualCounts == Len(report.jobs) = Len(golden.jobs)
Returned == pc = "returned" /\ result # None
Raised == pc = "raised"

(* The job records compare has built so far: those appended to the diff    *)
(* and the one of the job in hand.                                         *)
BuiltJobs ==
    {diff_summary.jobs[k] : k \in 1..Len(diff_summary.jobs)}
        \cup (IF pc = "for_metric" THEN {entry} ELSE {})

(* Every diff entry recorded so far, with its job index and metric name. *)
Recorded ==
    UNION {{[job |-> j.job, name |-> j.metrics[i].k, e |-> j.metrics[i].v]
               : i \in 1..Len(j.metrics)} : j \in BuiltJobs}

(* The rule of the table for a metric name, the defaults when unnamed. *)
RuleOf(name) ==
    IF \E i \in 1..Len(tolerances) : tolerances[i].k = name
    THEN tolerances[CHOOSE i \in 1..Len(tolerances) : tolerances[i].k = name].v
    ELSE [min |-> {}, max |-> {}, abs |-> DEFAULT_ABS_TOL, rel |-> DEFAULT_REL_TOL]

(* The number a payload's value stands for (coercible values only). *)
NumberOf(payload) == payload.value.v

(* The golden and the candidate payload of metric name in job k (0-based). *)
GoldenPayload(k, name) ==
    LET d == The(golden.jobs[k + 1].kpis)
    IN  d[CHOOSE i \in 1..Len(d) : d[i].k = name].v
CandidatePayload(k, name) ==
    LET d == The(report.jobs[k + 1].kpis)
    IN  d[CHOOSE i \in 1..Len(d) : d[i].k = name].v

(* C1: with equal job counts, every compared metric has                    *)
(* abs_delta = |report_value - golden_value| and                           *)
(* allowed = rule.abs + rule.rel * |golden_value|, and within_delta is     *)
(* true exactly when abs_delta <= allowed, equality included.              *)
C1_WithinDelta ==
    EqualCounts =>
        \A r \in Recorded :
            LET rule == RuleOf(r.name)
                g == NumberOf(GoldenPayload(r.job, r.name))
                c == NumberOf(CandidatePayload(r.job, r.name))
            IN  /\ r.e.golden = g
                /\ r.e.report = c
                /\ r.e.abs_delta = (IF c >= g THEN c - g ELSE g - c)
                /\ r.e.allowed = rule.abs * RelDen
                                   + rule.rel * (IF g >= 0 THEN g ELSE -g)
                /\ r.e.within_delta <=> (r.e.abs_delta * RelDen <= r.e.allowed)

(* A comparison has returned in which a metric differs from its golden     *)
(* value by exactly the allowed amount, and is within delta.               *)
C1_Witness ==
    /\ Returned /\ EqualCounts
    /\ \E r \in Recorded :
           /\ r.e.abs_delta > 0
           /\ r.e.abs_delta * RelDen = r.e.allowed
           /\ r.e.within_delta

(* C2: within_bounds is false exactly when rule.min is set and             *)
(* report_value + rule.abs < rule.min, or rule.max is set and              *)
(* report_value - rule.abs > rule.max; the value checked is the            *)
(* candidate's, never the golden one.                                      *)
C2_WithinBounds ==
    \A r \in Recorded :
        LET rule == RuleOf(r.name)
            c == NumberOf(CandidatePayload(r.job, r.name))
            below == \E m \in rule.min : c + rule.abs < m
            above == \E m \in rule.max : c - rule.abs > m
        IN  r.e.within_bounds <=> ~(below \/ above)

(* A candidate value below min but within the absolute slack of it passed  *)
(* the bound check, where the golden value would not have.                 *)
C2_Witness ==
    /\ Returned
    /\ \E r \in Recorded :
           LET rule == RuleOf(r.name)
           IN  /\ r.e.within_bounds
               /\ \E m \in rule.min : r.e.report < m /\ r.e.golden + rule.abs < m

(* C3: with equal job counts the verdict is the conjunction of the pass    *)
(* fields of the diff entries, each pass being within_delta and            *)
(* within_bounds; with no jobs the verdict is true.                        *)
C3_Verdict ==
    (Returned /\ EqualCounts) =>
        LET res == The(result)
            js == res.diff.jobs
        IN  /\ res.ok <=> \A k \in 1..Len(js) : \A i \in 1..Len(js[k].metrics) :
                              js[k].metrics[i].v.pass
            /\ \A k \in 1..Len(js) : \A i \in 1..Len(js[k].metrics) :
                   LET e == js[k].metrics[i].v
                   IN  e.pass <=> (e.within_delta /\ e.within_bounds)
            /\ (Len(report.jobs) = 0 => res.ok)

(* A comparison returned false although the last metric it compared        *)
(* passed.                                                                 *)
C3_Witness ==
    /\ Returned /\ EqualCounts
    /\ ~The(result).ok
    /\ LET js == The(result).diff.jobs
       IN  /\ Len(js) > 0
           /\ Len(js[Len(js)].metrics) > 0
           /\ js[Len(js)].metrics[Len(js[Len(js)].metrics)].v.pass

(* C4: with different job counts compare returns false at once with the    *)
(* job_count_mismatch record holding both counts, and no metric is         *)
(* compared, whatever the jobs hold.                                       *)
C4_JobCountMismatch ==
    (~EqualCounts /\ pc \notin {"collect_tolerances", "compare"}) =>
        /\ pc = "returned"
        /\ result = {[ok |-> FALSE,
                      diff |-> [error |-> "job_count_mismatch",
                                report |-> Len(report.jobs),
                                golden |-> Len(golden.jobs)]]}
        /\ compared = 0
        /\ error = ""

(* A two-job candidate was compared with a one-job golden whose metric     *)
(* the candidate's first job lacks.                                        *)
C4_Witness ==
    /\ Returned
    /\ Len(report.jobs) = 2 /\ Len(golden.jobs) = 1
    /\ report.jobs[1].kpis = None
    /\ golden.jobs[1].kpis # None

(* The bound check of a rule on a candidate value c. *)
BoundsHold(rule, c) ==
    /\ \A m \in rule.min : c + rule.abs >= m
    /\ \A m \in rule.max : c - rule.abs <= m

(* C5 as stated: a metric whose candidate value equals its golden value    *)
(* passes under every tolerance rule.                                      *)
C5_EqualValuesPass ==
    \A r \in Recorded :
        NumberOf(CandidatePayload(r.job, r.name)) = NumberOf(GoldenPayload(r.job, r.name))
            => r.e.pass

(* C5, amended: for equal candidate and golden values abs_delta is 0,      *)
(* within_delta is true exactly when abs + rel * |golden| is not negative, *)
(* and pass is true exactly when within_delta is and the value is within   *)
(* the rule's bounds, slack included.                                      *)
C5_EqualValues ==
    \A r \in Recorded :
        LET rule == RuleOf(r.name)
            g == NumberOf(GoldenPayload(r.job, r.name))
            c == NumberOf(CandidatePayload(r.job, r.name))
        IN  c = g =>
                /\ r.e.abs_delta = 0
                /\ r.e.within_delta
                       <=> (rule.abs * RelDen + rule.rel * (IF g >= 0 THEN g ELSE -g) >= 0)
                /\ r.e.pass <=> (r.e.within_delta /\ BoundsHold(rule, c))

(* A metric equal to its golden value, with a non-negative allowance,      *)
(* failed because it lies below the rule's min.                            *)
C5_Witness ==
    /\ Returned
    /\ \E r \in Recorded :
           /\ r.e.report = r.e.golden
           /\ r.e.allowed >= 0
           /\ r.e.within_delta
           /\ ~r.e.pass

(* C6: the metric names of every job's diff entry are exactly those of the *)
(* golden job, in its order: metrics only the candidate has are not        *)
(* looked at, each entry is computed from the candidate's value of that    *)
(* same name, and the metrics after a failed one are still compared.       *)
C6_GoldenDefinesMetrics ==
    /\ (Returned /\ EqualCounts) =>
           LET js == The(result).diff.jobs
           IN  \A k \in 1..Len(js) :
                   LET gk == Kpis(golden.jobs[k])
                   IN  /\ Len(js[k].metrics) = Len(gk)
                       /\ \A i \in 1..Len(gk) :
                              /\ js[k].metrics[i].k = gk[i].k
                              /\ js[k].metrics[i].v =
                                     DiffEntry(NumberOf(CandidatePayload(k - 1, gk[i].k)),
                                               NumberOf(gk[i].v), RuleOf(gk[i].k))
    /\ (pc = "for_metric" /\ EqualCounts) =>
           LET gk == Kpis(golden.jobs[idx + 1])
           IN  /\ pos = Len(entry.metrics)
               /\ \A i \in 1..pos : entry.metrics[i].k = gk[i].k

(* A comparison returned in which a candidate job carries a metric its     *)
(* golden job does not name, and a metric was compared after a failed one. *)
C6_Witness ==
    /\ Returned /\ EqualCounts
    /\ \E k \in 1..Len(golden.jobs) :
           /\ Kpis(golden.jobs[k]) # <<>>
           /\ ~(Keys(Kpis(report.jobs[k])) \subseteq Keys(Kpis(golden.jobs[k])))
    /\ \E j \in BuiltJobs : \E i \in 1..Len(j.metrics) :
           i < Len(j.metrics) /\ ~j.metrics[i].v.pass

(* Some index-aligned job pair has a golden metric that the candidate job  *)
(* lacks, or whose golden or candidate value float() does not accept.      *)
HasBadMetric ==
    \E k \in 1..Len(report.jobs) :
        /\ k <= Len(golden.jobs)
        /\ LET gk == Kpis(golden.jobs[k])
               ck == Kpis(report.jobs[k])
           IN  \E i \in 1..Len(gk) :
                   \/ gk[i].v.value.t \notin {"num", "numstr"}
                   \/ gk[i].k \notin Keys(ck)
                   \/ \E n \in 1..Len(ck) :
                          ck[n].k = gk[i].k /\ ck[n].v.value.t \notin {"num", "numstr"}

(* C7 as stated: whenever a golden metric is missing from the candidate    *)
(* job or a value cannot be coerced, compare raises and returns nothing.   *)
C7_BadMetricFatal ==
    HasBadMetric =>
        /\ result = None
        /\ pc # "returned"

(* C7, amended: for reports with equal job counts, a missing or            *)
(* non-numeric metric makes compare raise (TypeError or ValueError); it    *)
(* returns neither verdict nor diff: the return is never its next step, a  *)
(* job pair is left at the head of the job loop, and the metric loop is    *)
(* within the golden job's items.                                          *)
C7_BadMetricFatalEqualCounts ==
    (HasBadMetric /\ EqualCounts) =>
        /\ result = None
        /\ pc # "returned"
        /\ ~ENABLED CompareReturn
        /\ (pc = "for_job" => idx < Len(report.jobs))
        /\ (pc = "for_metric" => pos <= Len(Kpis(golden.jobs[idx + 1])))
        /\ (pc = "raised" => error \in {"TypeError", "ValueError"})

(* compare raised in its second job, after a whole job and a further       *)
(* metric had been compared.                                               *)
C7_Witness ==
    /\ Raised /\ EqualCounts
    /\ result = None
    /\ Len(diff_summary.jobs) = 1
    /\ Len(diff_summary.jobs[1].metrics) > 0
    /\ pos > 0

(* The plan's tolerances mapping, and the metric the last pass of the      *)
(* metric loop compared.                                                   *)
RawTolerances == IF plan.tolerances = None THEN <<>> ELSE The(plan.tolerances)
RawEntry(name) ==
    RawTolerances[CHOOSE i \in 1..Len(RawTolerances) : RawTolerances[i].k = name].v
FieldOf(mapping, field) ==
    mapping[CHOOSE i \in 1..Len(mapping) : mapping[i].k = field].v
LastName == Kpis(golden.jobs[idx + 1])[pos].k

(* C8: the rule applied to a metric is resolved field by field: a metric   *)
(* the plan's tolerances mapping does not name gets abs = 1e-9,            *)
(* rel = 1e-3, min = None, max = None; a metric whose entry is a mapping   *)
(* gets each of min, max, abs, rel from the entry when present and the     *)
(* default when absent.                                                    *)
C8_ToleranceResolution ==
    (pc = "for_metric" /\ pos >= 1) =>
        /\ LastName \notin Keys(RawTolerances) =>
               /\ tol.abs = DEFAULT_ABS_TOL
               /\ tol.rel = DEFAULT_REL_TOL
               /\ tol.min = {}
               /\ tol.max = {}
        /\ (LastName \in Keys(RawTolerances) /\ RawEntry(LastName).isdict) =>
               LET mapping == RawEntry(LastName).m
               IN  /\ tol.abs = IF "abs" \in Keys(mapping) THEN FieldOf(mapping, "abs")
                                ELSE DEFAULT_ABS_TOL
                   /\ tol.rel = IF "rel" \in Keys(mapping) THEN FieldOf(mapping, "rel")
                                ELSE DEFAULT_REL_TOL
                   /\ tol.min = IF "min" \in Keys(mapping) THEN {FieldOf(mapping, "min")}
                                ELSE {}
                   /\ tol.max = IF "max" \in Keys(mapping) THEN {FieldOf(mapping, "max")}
                                ELSE {}

(* A metric was compared under a plan entry that gives min and abs but     *)
(* neither max nor rel.                                                    *)
C8_Witness ==
    /\ pc = "for_metric" /\ pos >= 1
    /\ LastName \in Keys(RawTolerances)
    /\ RawEntry(LastName).isdict
    /\ Keys(RawEntry(LastName).m) = {"min", "abs"}
    /\ tol.min # {} /\ tol.max = {}

EntryFields ==
    {"report", "golden", "abs_delta", "allowed", "within_delta", "within_bounds", "pass"}

(* The diff is {"jobs": [{"job": index, "metrics": {name: entry}}, ...]}. *)
IsJobsDiff(d) ==
    /\ DOMAIN d = {"jobs"}
    /\ \A k \in 1..Len(d.jobs) :
           /\ DOMAIN d.jobs[k] = {"job", "metrics"}
           /\ d.jobs[k].job = k - 1
           /\ \A i \in 1..Len(d.jobs[k].metrics) :
                  DOMAIN d.jobs[k].metrics[i].v = EntryFields

(* C9 as stated: whenever compare returns a verdict, the diff returned     *)
(* with it is the structure with a jobs sequence of {job, metrics}         *)
(* records.                                                                *)
C9_DiffAlwaysJobs ==
    Returned => IsJobsDiff(The(result).diff)

(* C9, amended: when compare returns for reports with equal job counts,    *)
(* true or false, the diff is the jobs structure; on a job count mismatch  *)
(* it returns false with the {error, report, golden} record, which has no  *)
(* jobs sequence.                                                          *)
C9_DiffStructure ==
    Returned =>
        IF EqualCounts
        THEN IsJobsDiff(The(result).diff)
        ELSE /\ DOMAIN The(result).diff = {"error", "report", "golden"}
             /\ ~The(result).ok

(* compare returned false with a diff that holds a failed entry. *)
C9_Witness ==
    /\ Returned /\ EqualCounts
    /\ ~The(result).ok
    /\ \E k \in 1..Len(The(result).diff.jobs) :
           \E i \in 1..Len(The(result).diff.jobs[k].metrics) :
               ~The(result).diff.jobs[k].metrics[i].v.pass

(* C10: jobs are matched by position: with equal job counts n the diff has *)
(* n job records, record k has job = k, and its entries hold the values of *)
(* candidate job k and golden job k.                                       *)
C10_IndexAligned ==
    (Returned /\ EqualCounts) =>
        LET js == The(result).diff.jobs
        IN  /\ Len(js) = Len(report.jobs)
            /\ \A k \in 1..Len(js) :
                   /\ js[k].job = k - 1
                   /\ Len(js[k].metrics) = Len(Kpis(golden.jobs[k]))
                   /\ \A i \in 1..Len(js[k].metrics) :
                          LET name == Kpis(golden.jobs[k])[i].k
                          IN  /\ js[k].metrics[i].k = name
                              /\ js[k].metrics[i].v.golden
                                     = NumberOf(GoldenPayload(k - 1, name))
                              /\ js[k].metrics[i].v.report
                                     = NumberOf(CandidatePayload(k - 1, name))

(* Two jobs were compared whose candidate values for the same metric       *)
(* differ from one job to the other.                                       *)
C10_Witness ==
    /\ Returned /\ EqualCounts
    /\ Len(report.jobs) = 2
    /\ LET js == The(result).diff.jobs
       IN  /\ Len(js) = 2
           /\ \E i \in 1..Len(js[1].metrics) : \E n \in 1..Len(js[2].metrics) :
                  /\ js[1].metrics[i].k = js[2].metrics[n].k
                  /\ js[1].metrics[i].v.report # js[2].metrics[n].v.report

----------------------------------------------------------------------------
(* compare as a function of its three arguments *)

(* The metric loop of one job from item n on; acc holds ok and the         *)
(* metrics recorded so far.  err names the exception float() raised.       *)
RECURSIVE MetricLoop(_, _, _, _, _)
MetricLoop(items, kpis_report, table, n, acc) ==
    IF n > Len(items)
    THEN [err |-> "", ok |-> acc.ok, metrics |-> acc.metrics]
    ELSE LET name == items[n].k
             golden_value == Float(items[n].v.value)
             report_value == Float(ReportRaw(kpis_report, name))
             e == DiffEntry(report_value.v, golden_value.v, ResolveTol(table, name))
         IN  IF golden_value.err # ""
             THEN [err |-> golden_value.err, ok |-> acc.ok, metrics |-> acc.metrics]
             ELSE IF report_value.err # ""
             THEN [err |-> report_value.err, ok |-> acc.ok, metrics |-> acc.metrics]
             ELSE MetricLoop(items, kpis_report, table, n + 1,
                             [ok |-> NextOk(acc.ok, e.pass),
                              metrics |-> Put(acc.metrics, name, e)])

(* The job loop from enumerate index i on; acc holds ok and the job        *)
(* records appended so far.                                                *)
RECURSIVE JobLoop(_, _, _, _, _)
JobLoop(jobs_report, jobs_golden, table, i, acc) ==
    IF i >= Len(jobs_report)
    THEN [result |-> Some([ok |-> acc.ok, diff |-> [jobs |-> acc.jobs]]), error |-> ""]
    ELSE LET kpis_report == Kpis(JobAt(jobs_report, i))
             kpis_golden == Kpis(JobAt(jobs_golden, i))
             m == MetricLoop(Iterated(kpis_report, kpis_golden), kpis_report, table, 1,
                             [ok |-> acc.ok, metrics |-> <<>>])
         IN  IF m.err # ""
             THEN [result |-> None, error |-> m.err]
             ELSE JobLoop(jobs_report, jobs_golden, table, i + 1,
                          [ok |-> m.ok,
                           jobs |-> Append(acc.jobs,
                                           [NewEntry(i) EXCEPT !.metrics = m.metrics])])

(* compare(report, golden, tolerances): what it returns, or the exception  *)
(* it raises.                                                              *)
compare(r, g, table) ==
    IF Len(Jobs(r)) # Len(Jobs(g))
    THEN [result |-> Some([ok |-> FALSE,
                           diff |-> MismatchDiff(Len(Jobs(r)), Len(Jobs(g)))]),
          error |-> ""]
    ELSE JobLoop(Jobs(r), Jobs(g), table, 0, [ok |-> TRUE, jobs |-> <<>>])

(* A report with the stored pass field of every payload replaced. *)
RepassJob(job, f(_)) ==
    IF job.kpis = None THEN job
    ELSE LET d == The(job.kpis)
         IN  Job(Some([i \in 1..Len(d) |->
                          Item(d[i].k, Payload(d[i].v.value, f(d[i].v.pass)))]))
Repass(r, f(_)) == Report([k \in 1..Len(r.jobs) |-> RepassJob(r.jobs[k], f)])
PassTrue(b) == TRUE
PassFalse(b) == FALSE
PassFlipped(b) == ~b

Finished == pc \in {"returned", "raised"}

(* C11: the pass fields stored in the candidate and golden reports do not  *)
(* influence compare: the outcome of the call (verdict and diff, or the    *)
(* exception) is that of the comparison of the same reports with every     *)
(* stored pass field set to true, set to false, or negated.                *)
C11_StoredPassIgnored ==
    Finished =>
        /\ [result |-> result, error |-> error] = compare(report, golden, tolerances)
        /\ compare(Repass(report, PassTrue), Repass(golden, PassTrue), tolerances)
               = [result |-> result, error |-> error]
        /\ compare(Repass(report, PassFalse), Repass(golden, PassFalse), tolerances)
               = [result |-> result, error |-> error]
        /\ compare(Repass(report, PassFlipped), Repass(golden, PassFlipped), tolerances)
               = [result |-> result, error |-> error]
        /\ compare(Repass(report, PassTrue), Repass(golden, PassFalse), tolerances)
               = [result |-> result, error |-> error]

(* A comparison returned in which a metric passes although the golden      *)
(* report stores pass = false for it, and another fails although the       *)
(* candidate report stores pass = true for it.                             *)
C11_Witness ==
    /\ Returned /\ EqualCounts
    /\ \E r \in Recorded : r.e.pass /\ ~GoldenPayload(r.job, r.name).pass
    /\ \E r \in Recorded : ~r.e.pass /\ CandidatePayload(r.job, r.name).pass

(* C12: compare has no side effects: whatever its outcome, no step of it   *)
(* changes the candidate report, the golden report or the rule table, and  *)
(* no state is carried over: a second call with the same arguments ends as *)
(* the first did.                                                          *)
C12_NoSideEffects ==
    /\ [][/\ report' = report
          /\ golden' = golden
          /\ pc # "collect_tolerances" => tolerances' = tolerances]_vars
    /\ [](Finished =>
              /\ tolerances = collect_tolerances(plan)
              /\ first # None => The(first) = [result |-> result, error |-> error])

(* A second call has ended, by a raise after a job had been compared, as   *)
(* the first did.                                                          *)
C12_Witness ==
    /\ first # None
    /\ Raised
    /\ The(first).error # ""
    /\ Len(diff_summary.jobs) > 0
    /\ \E k \in 1..Len(golden.jobs) :
           \E i \in 1..Len(Kpis(golden.jobs[k])) :
               Kpis(golden.jobs[k])[i].k \notin Keys(tolerances)

Exited == pc = "exited"

(* C13: main exits non-zero whenever the verdict is false or an exception  *)
(* was raised while loading the plan or comparing, and exits zero only     *)
(* when the verdict is true.                                               *)
C13_ExitStatus ==
    Exited =>
        /\ exit_code # None
        /\ (error # "" \/ result = None) => The(exit_code) # 0
        /\ (result # None /\ ~The(result).ok) => The(exit_code) # 0
        /\ The(exit_code) = 0 => (result # None /\ The(result).ok /\ error = "")
        /\ (result # None /\ The(result).ok) => The(exit_code) = 0

(* main has exited non-zero after compare returned a false verdict with a  *)
(* diff of compared jobs.                                                  *)
C13_Witness ==
    /\ Exited
    /\ exit_code = {1}
    /\ result # None
    /\ ~The(result).ok
    /\ Len(diff_summary.jobs) > 0
    /\ error = ""

(* C14: when a diff path is given, main writes the diff compare returned,  *)
(* as it is, to that path before it exits, for a false verdict as for a    *)
(* true one; nothing is written before compare has returned.               *)
C14_DiffWritten ==
    /\ (pc \in {"return", "exited"} /\ result # None /\ args_diff # None) =>
           diff_file = {[json |-> The(result).diff, indent |-> "2", newline |-> TRUE]}
    /\ diff_file # None => (result # None /\ pc \in {"return", "exited"})
    /\ args_diff = None => diff_file = None

(* main has exited after writing the diff of a false verdict. *)
C14_Witness ==
    /\ Exited
    /\ result # None
    /\ ~The(result).ok
    /\ "jobs" \in DOMAIN The(result).diff
    /\ diff_file # None
    /\ The(diff_file).json = The(result).diff

----------------------------------------------------------------------------
(* The minimal plan parser: simple_yaml, parse_block, split_key_value,     *)
(* parse_scalar.                                                           *)
(*                                                                         *)
(* A Python str is the sequence of its characters, each a one-character    *)
(* string.  The whitespace characters of the texts are the space and the   *)
(* newline, and no text holds a backslash.  What a call gives is [err, v]: *)
(* err names the exception raised, "" when the call returned v.            *)

MaxQuotes == 2
MaxLines == 3

Whitespace == {" ", "\n"}
Digit == {"0", "1", "2", "3", "4", "5", "6", "7", "8", "9"}

RECURSIVE lstrip_chars(_, _)
lstrip_chars(s, chars) ==
    IF s # <<>> /\ Head(s) \in chars THEN lstrip_chars(Tail(s), chars) ELSE s

RECURSIVE rstrip_chars(_, _)
rstrip_chars(s, chars) ==
    IF s # <<>> /\ s[Len(s)] \in chars
    THEN rstrip_chars(SubSeq(s, 1, Len(s) - 1), chars)
    ELSE s

(* str.strip(chars): every leading and every trailing character in chars. *)
strip_chars(s, chars) == rstrip_chars(lstrip_chars(s, chars), chars)

lstrip(s) == lstrip_chars(s, Whitespace)
strip(s) == strip_chars(s, Whitespace)

(* c in s *)
In(c, s) == \E i \in 1..Len(s) : s[i] = c

startswith(s, c) == s # <<>> /\ s[1] = c
endswith(s, c) == s # <<>> /\ s[Len(s)] = c

LowerChar(c) ==
    CASE c = "T" -> "t" [] c = "R" -> "r" [] c = "U" -> "u" [] c = "E" -> "e"
      [] c = "F" -> "f" [] c = "A" -> "a" [] c = "L" -> "l" [] c = "S" -> "s"
      [] c = "I" -> "i" [] c = "N" -> "n" [] c = "Y" -> "y"
      [] OTHER -> c
lower(s) == [i \in 1..Len(s) |-> LowerChar(s[i])]

(* s.replace(old, new) for one-character old and new *)
replace(s, old, new) == [i \in 1..Len(s) |-> IF s[i] = old THEN new ELSE s[i]]

(* Python values the parser builds. *)
PyNone == [t |-> "None", v |-> <<>>]
PyBool(b) == [t |-> "bool", v |-> b]
PyInt(n) == [t |-> "int", v |-> n]
PyFloat(f) == [t |-> "float", v |-> f]
PyStr(s) == [t |-> "str", v |-> s]
PyList(xs) == [t |-> "list", v |-> xs]
PyDict(items) == [t |-> "dict", v |-> items]

Returns(v) == [err |-> "", v |-> v]
Raises(exception) == [err |-> exception, v |-> PyNone]

(* Numerals.  A float is m * 10^e with m not a multiple of 10 (0 is m = 0, *)
(* e = 0), or one of inf, -inf, nan.                                       *)
DigitVal(c) ==
    CASE c = "0" -> 0 [] c = "1" -> 1 [] c = "2" -> 2 [] c = "3" -> 3 [] c = "4" -> 4
      [] c = "5" -> 5 [] c = "6" -> 6 [] c = "7" -> 7 [] c = "8" -> 8 [] c = "9" -> 9

(* Digits with single underscores between them, as int() and float() take *)
(* them.                                                                   *)
IsDigitRun(s) ==
    /\ s # <<>>
    /\ s[1] \in Digit
    /\ s[Len(s)] \in Digit
    /\ \A i \in 1..Len(s) : s[i] \in Digit \cup {"_"}
    /\ \A i \in 1..(Len(s) - 1) : ~(s[i] = "_" /\ s[i + 1] = "_")

RECURSIVE DigitRunValue(_, _)
DigitRunValue(s, acc) ==
    IF s = <<>> THEN acc
    ELSE IF Head(s) = "_" THEN DigitRunValue(Tail(s), acc)
    ELSE DigitRunValue(Tail(s), 10 * acc + DigitVal(Head(s)))

DigitCount(s) == Cardinality({i \in 1..Len(s) : s[i] \in Digit})

HasSign(s) == s # <<>> /\ s[1] \in {"+", "-"}
Unsigned(s) == IF HasSign(s) THEN Tail(s) ELSE s
SignOf(s) == IF startswith(s, "-") THEN -1 ELSE 1

(* int(s) for a str s *)
int(s) ==
    LET t == strip(s)
    IN  IF IsDigitRun(Unsigned(t))
        THEN Returns(PyInt(SignOf(t) * DigitRunValue(Unsigned(t), 0)))
        ELSE Raises("ValueError")

RECURSIVE Normal(_, _)
Normal(m, e) ==
    IF m = 0 THEN [m |-> 0, e |-> 0, s |-> ""]
    ELSE IF m % 10 = 0 THEN Normal(m \div 10, e + 1)
    ELSE [m |-> m, e |-> e, s |-> ""]
Special(name) == [m |-> 0, e |-> 0, s |-> name]

(* The index of the first character of s that is in chars, 0 when none. *)
Find(s, chars) ==
    IF \E i \in 1..Len(s) : s[i] \in chars
    THEN CHOOSE i \in 1..Len(s) : s[i] \in chars /\ \A j \in 1..(i - 1) : s[j] \notin chars
    ELSE 0

(* Mantissa digits: digits, digits. , .digits or digits.digits *)
IsMantissa(s) ==
    LET dot == Find(s, {"."})
        whole == SubSeq(s, 1, dot - 1)
        frac == SubSeq(s, dot + 1, Len(s))
    IN  IF dot = 0 THEN IsDigitRun(s)
        ELSE /\ whole # <<>> \/ frac # <<>>
             /\ whole # <<>> => IsDigitRun(whole)
             /\ frac # <<>> => IsDigitRun(frac)
IsExponent(s) == IsDigitRun(Unsigned(s))

(* The float written as mantissa digits and an exponent (<<>> when none). *)
Decimal(sign, mantissa, exponent) ==
    LET dot == Find(mantissa, {"."})
        whole == IF dot = 0 THEN mantissa ELSE SubSeq(mantissa, 1, dot - 1)
        frac == IF dot = 0 THEN <<>> ELSE SubSeq(mantissa, dot + 1, Len(mantissa))
        exp == IF exponent = <<>> THEN 0
               ELSE SignOf(exponent) * DigitRunValue(Unsigned(exponent), 0)
    IN  Normal(sign * DigitRunValue(whole \o frac, 0), exp - DigitCount(frac))

(* float(s) for a str s *)
float(s) ==
    LET t == strip(s)
        body == Unsigned(t)
        ex == Find(body, {"e", "E"})
        mantissa == IF ex = 0 THEN body ELSE SubSeq(body, 1, ex - 1)
        exponent == IF ex = 0 THEN <<>> ELSE SubSeq(body, ex + 1, Len(body))
    IN  IF lower(body) \in {<<"i", "n", "f">>, <<"i", "n", "f", "i", "n", "i", "t", "y">>}
        THEN Returns(PyFloat(Special(IF SignOf(t) < 0 THEN "-inf" ELSE "inf")))
        ELSE IF lower(body) = <<"n", "a", "n">>
        THEN Returns(PyFloat(Special("nan")))
        ELSE IF IsMantissa(mantissa) /\ (ex # 0 => IsExponent(exponent))
        THEN Returns(PyFloat(Decimal(SignOf(t), mantissa, exponent)))
        ELSE Raises("ValueError")

(* json.loads: a value is [err, v, rest], rest being the text after it. *)
HasPrefix(s, prefix) == Len(s) >= Len(prefix) /\ SubSeq(s, 1, Len(prefix)) = prefix
Drop(s, n) == SubSeq(s, n + 1, Len(s))

Scanned(v, rest) == [err |-> "", v |-> v, rest |-> rest]
NoValue == [err |-> "JSONDecodeError", v |-> PyNone, rest |-> <<>>]

(* The number of leading digits of s. *)
LeadingDigits(s) ==
    IF \E i \in 1..Len(s) : s[i] \notin Digit
    THEN (CHOOSE i \in 1..Len(s) : s[i] \notin Digit /\ \A j \in 1..(i - 1) : s[j] \in Digit) - 1
    ELSE Len(s)

(* json.scanner NUMBER_RE: an optional minus, then 0 or digits without a   *)
(* leading 0; optionally a dot and digits; optionally e or E, a sign and   *)
(* digits.                                                                 *)
json_number(s) ==
    LET body == IF startswith(s, "-") THEN Tail(s) ELSE s
        whole == IF startswith(body, "0") THEN 1 ELSE LeadingDigits(body)
        b == Drop(body, whole)
        frac == IF startswith(b, ".") /\ LeadingDigits(Tail(b)) > 0
                THEN 1 + LeadingDigits(Tail(b)) ELSE 0
        c == Drop(b, frac)
        exp == IF c # <<>> /\ c[1] \in {"e", "E"} /\ LeadingDigits(Unsigned(Tail(c))) > 0
               THEN 1 + (Len(Tail(c)) - Len(Unsigned(Tail(c)))) + LeadingDigits(Unsigned(Tail(c)))
               ELSE 0
        rest == Drop(c, exp)
    IN  IF whole = 0 THEN NoValue
        ELSE IF frac = 0 /\ exp = 0
        THEN Scanned(PyInt(SignOf(s) * DigitRunValue(SubSeq(body, 1, whole), 0)), rest)
        ELSE Scanned(PyFloat(Decimal(SignOf(s), SubSeq(body, 1, whole + frac),
                                     IF exp = 0 THEN <<>> ELSE SubSeq(c, 2, exp))), rest)

RECURSIVE json_value(_)
RECURSIVE json_elements(_, _)
RECURSIVE json_members(_, _)

(* json.scanner: one value at the head of s *)
json_value(s) ==
    IF s = <<>> THEN NoValue
    ELSE IF s[1] = "\""
    THEN LET close == Find(Tail(s), {"\""})
         IN  IF close = 0 THEN NoValue
             ELSE Scanned(PyStr(SubSeq(s, 2, close)), Drop(s, close + 1))
    ELSE IF s[1] = "["
    THEN LET inner == lstrip(Tail(s))
         IN  IF startswith(inner, "]") THEN Scanned(PyList(<<>>), Tail(inner))
             ELSE json_elements(inner, <<>>)
    ELSE IF s[1] = "{"
    THEN LET inner == lstrip(Tail(s))
         IN  IF startswith(inner, "}") THEN Scanned(PyDict(<<>>), Tail(inner))
             ELSE json_members(inner, <<>>)
    ELSE IF HasPrefix(s, <<"n", "u", "l", "l">>) THEN Scanned(PyNone, Drop(s, 4))
    ELSE IF HasPrefix(s, <<"t", "r", "u", "e">>) THEN Scanned(PyBool(TRUE), Drop(s, 4))
    ELSE IF HasPrefix(s, <<"f", "a", "l", "s", "e">>) THEN Scanned(PyBool(FALSE), Drop(s, 5))
    ELSE IF json_number(s).err = "" THEN json_number(s)
    ELSE IF HasPrefix(s, <<"N", "a", "N">>) THEN Scanned(PyFloat(Special("nan")), Drop(s, 3))
    ELSE IF HasPrefix(s, <<"I", "n", "f", "i", "n", "i", "t", "y">>)
    THEN Scanned(PyFloat(Special("inf")), Drop(s, 8))
    ELSE IF HasPrefix(s, <<"-", "I", "n", "f", "i", "n", "i", "t", "y">>)
    THEN Scanned(PyFloat(Special("-inf")), Drop(s, 9))
    ELSE NoValue

(* json.decoder JSONArray: the elements after "[", acc those read so far *)
json_elements(s, acc) ==
    LET element == json_value(s)
        after == lstrip(element.rest)
    IN  IF element.err # "" THEN NoValue
        ELSE IF startswith(after, "]") THEN Scanned(PyList(Append(acc, element.v)), Tail(after))
        ELSE IF startswith(after, ",")
        THEN json_elements(lstrip(Tail(after)), Append(acc, element.v))
        ELSE NoValue

(* json.decoder JSONObject: the members after "{", acc those read so far; *)
(* a key read again keeps its place and takes the later value.             *)
json_members(s, acc) ==
    LET close == Find(Tail(s), {"\""})
        key == SubSeq(s, 2, close)
        colon == lstrip(Drop(s, close + 1))
        member == json_value(lstrip(Tail(colon)))
        after == lstrip(member.rest)
    IN  IF ~startswith(s, "\"") \/ close = 0 \/ ~startswith(colon, ":") THEN NoValue
        ELSE IF member.err # "" THEN NoValue
        ELSE IF startswith(after, "}")
        THEN Scanned(PyDict(Put(acc, key, member.v)), Tail(after))
        ELSE IF startswith(after, ",")
        THEN json_members(lstrip(Tail(after)), Put(acc, key, member.v))
        ELSE NoValue

(* json.loads(s) *)
json_loads(s) ==
    LET scanned == json_value(lstrip(s))
    IN  IF scanned.err # "" \/ lstrip(scanned.rest) # <<>>
        THEN Raises("JSONDecodeError")
        ELSE Returns(scanned.v)

(* "." in value or "e" in value or "E" in value *)
LooksFloatNoUpperE(s) == In(".", s) \/ In("e", s)
LooksFloat(s) == In(".", s) \/ In("e", s) \/ In("E", s)

(* parse_scalar(value) *)
parse_scalar(s) ==
    IF startswith(s, "[") /\ endswith(s, "]")
    THEN json_loads(replace(s, "'", "\""))
    ELSE IF lower(s) \in {<<"t", "r", "u", "e">>, <<"f", "a", "l", "s", "e">>}
    THEN Returns(PyBool(lower(s) = <<"t", "r", "u", "e">>))
    ELSE LET number == IF LooksFloat(s) THEN float(s) ELSE int(s)
         IN  IF number.err = "" THEN number
             ELSE Returns(PyStr(strip_chars(s, {"\""})))

(* split_key_value(line): [err, key, rest], rest None or Some(text) *)
split_key_valueLenient(line) ==
    LET colon == Find(line, {":"})
        key == IF colon = 0 THEN line ELSE SubSeq(line, 1, colon - 1)
        rest == IF colon = 0 THEN <<>> ELSE strip(Drop(line, colon))
    IN  [err |-> "", key |-> key, rest |-> IF rest # <<>> THEN Some(rest) ELSE None]
split_key_value(line) ==
    LET colon == Find(line, {":"})
        key == SubSeq(line, 1, colon - 1)
        rest == strip(Drop(line, colon))
    IN  IF ~In(":", line)
        THEN [err |-> "ValueError: expected key: value pair", key |-> <<>>, rest |-> None]
        ELSE [err |-> "", key |-> key, rest |-> IF rest # <<>> THEN Some(rest) ELSE None]

(* len(line) - len(line.lstrip()) *)
Indent(line) == Len(line) - Len(lstrip(line))

(* current_indent > indent *)
TooDeepNever(current_indent, indent) == FALSE
TooDeepLoose(current_indent, indent) == current_indent > indent + 2
TooDeep(current_indent, indent) == current_indent > indent

(* What parse_block gives: [err, result, i]. *)
BlockSkipping(mapping, i) == [err |-> "", result |-> mapping, i |-> i + 1]
BlockPast(mapping, i) == [err |-> "", result |-> mapping, i |-> i + 2]
Block(mapping, i) == [err |-> "", result |-> mapping, i |-> i]
BlockRaises(exception) == [err |-> exception, result |-> <<>>, i |-> 0]

RECURSIVE parse_block(_, _, _)
RECURSIVE WhileLines(_, _, _, _)

(* parse_block: the while loop at index i (0-based), mapping its result so far *)
WhileLines(lines, i, indent, mapping) ==
    IF ~(i < Len(lines)) THEN Block(mapping, i)
    ELSE LET line == lines[i + 1]
             current_indent == Indent(line)
             pair == split_key_value(strip(line))
             sub == parse_block(lines, i + 1, indent + 2)
             scalar == parse_scalar(The(pair.rest))
         IN  IF current_indent < indent THEN Block(mapping, i)
             ELSE IF TooDeep(current_indent, indent)
             THEN BlockRaises("ValueError: invalid indentation on line")
             ELSE IF pair.err # "" THEN BlockRaises(pair.err)
             ELSE IF pair.rest = None
             THEN IF sub.err # "" THEN sub
                  ELSE WhileLines(lines, sub.i, indent, Put(mapping, pair.key, PyDict(sub.result)))
             ELSE IF scalar.err # "" THEN BlockRaises(scalar.err)
             ELSE WhileLines(lines, i + 1, indent, Put(mapping, pair.key, scalar.v))

parse_block(lines, start, indent) == WhileLines(lines, start, indent, <<>>)

(* parse_block: one iteration of the while loop with the cursor at i        *)
(* (i < len(lines)): it breaks, raises, or goes on with the cursor at next. *)
Iteration(lines, i, indent) ==
    LET line == lines[i + 1]
        current_indent == Indent(line)
        pair == split_key_value(strip(line))
        sub == parse_block(lines, i + 1, indent + 2)
        scalar == parse_scalar(The(pair.rest))
    IN  IF current_indent < indent THEN [end |-> "break", next |-> i]
        ELSE IF current_indent > indent THEN [end |-> "raise", next |-> i]
        ELSE IF pair.err # "" THEN [end |-> "raise", next |-> i]
        ELSE IF pair.rest = None
        THEN IF sub.err # "" THEN [end |-> "raise", next |-> i]
             ELSE [end |-> "continue", next |-> sub.i]
        ELSE IF scalar.err # "" THEN [end |-> "raise", next |-> i]
        ELSE [end |-> "continue", next |-> i + 1]

(* The lines simple_yaml keeps: not blank, not a comment. *)
RetainedAll(lines) == lines
RetainedUnindented(lines) ==
    SelectSeq(lines, LAMBDA line : strip(line) # <<>> /\ ~startswith(line, "#"))
Retained(lines) ==
    SelectSeq(lines, LAMBDA line : strip(line) # <<>> /\ ~startswith(strip(line), "#"))

(* simple_yaml(text), text given as text.splitlines() *)
simple_yaml(lines) ==
    LET block == parse_block(Retained(lines), 0, 0)
    IN  IF block.err # "" THEN Raises(block.err) ELSE Returns(PyDict(block.result))

(* Inputs: plan lines and the plan texts made of them. *)
PlanLines ==
    { <<"a", ":">>,
      <<"a", ":", " ", "1">>,
      <<" ", " ", "c", ":", " ", "2">>,
      <<" ", " ", "d", ":">>,
      <<" ", " ", " ", " ", "e", ":", " ", "t", "r", "u", "e">>,
      <<"x">>,
      <<" ", " ", "y", " ", "1">>,
      <<" ", "#", " ", "x">>,
      <<" ", "f", ":", " ", "1">>,
      <<" ", " ">>,
      <<" ", " ", "g", ":", " ", "[", "1", ",", "]">>,
      <<"h", ":", " ", "1", ":", "#">> }
PlanTexts == UNION {[1..n -> PlanLines] : n \in 0..MaxLines}

(* Inputs: scalar texts.  A core text between i and j double quotes, and  *)
(* texts of each class parse_scalar tells apart.                           *)
Quotes(n) == [k \in 1..n |-> "\""]
Quoted(i, core, j) == Quotes(i) \o core \o Quotes(j)
Cores ==
    { <<"a">>, <<"1">>, <<"t", "r", "u", "e">>, <<"1", ".", "5">>, <<"a", "\"", "b">> }
PlainTexts ==
    { <<"T", "R", "U", "E">>, <<"F", "a", "l", "s", "e">>, <<"t", "R", "u", "E">>,
      <<"f", "a", "l", "s", "e">>, <<"t", "r", "u", "e", "s">>,
      <<"-", "1">>, <<"+", "1">>, <<"1", "_", "0", "0", "0">>, <<"0", "7">>,
      <<"1", "e", "3">>, <<"1", "E", "3">>, <<"2", ".", "5", "E", "-", "1">>,
      <<"5", ".">>, <<".", "5">>, <<"1", "e">>, <<"E">>, <<".">>, <<"-">>,
      <<"1", ".", "5", ".", "2">>, <<"i", "n", "f">>, <<"n", "a", "n">>,
      <<"a", "b", "c">>, <<"1", " ", "2">>, <<"1", "_">> }
ListTexts ==
    { <<"[", "]">>,
      <<"[", "1", ",", " ", "2", "]">>,
      <<"[", "2", ",", "1", "]">>,
      <<"[", "'", "a", "'", ",", " ", "'", "b", "'", "]">>,
      <<"[", "\"", "a", "\"", ",", " ", "1", ".", "5", "]">>,
      <<"[", "\"", "i", "t", "'", "s", "\"", "]">>,
      <<"[", "\"", "1", "\"", ",", "1", "]">>,
      <<"[", "t", "r", "u", "e", ",", " ", "n", "u", "l", "l", "]">>,
      <<"[", "[", "1", "]", ",", " ", "[", "]", "]">>,
      <<"[", "1", ",", "]">>,
      <<"[", "T", "r", "u", "e", "]">>,
      <<"[", "1", "]", ",", "[", "2", "]">>,
      <<"[", "a", "]">> }
ScalarTexts ==
    {Quoted(i, core, j) : i \in 0..MaxQuotes, j \in 0..MaxQuotes, core \in Cores}
        \cup PlainTexts \cup ListTexts

(* The comparator and main at rest while the parser is called alone. *)
AtRest ==
    /\ plan = Plan(None)
    /\ report = Report(<<>>)
    /\ golden = Report(<<>>)
    /\ tolerances = <<>>
    /\ idx = 0
    /\ pos = 0
    /\ entry = NewEntry(0)
    /\ ok = TRUE
    /\ diff_summary = [jobs |-> <<>>]
    /\ tol = DefaultTolerance
    /\ compared = 0
    /\ result = None
    /\ error = ""
    /\ first = None
    /\ plan_file = FileOf(Plan(None))
    /\ parsers = <<>>
    /\ args_diff = None
    /\ diff_file = None
    /\ exit_code = None

InitParser ==
    /\ AtRest
    /\ args_out = None
    /\ report_text = <<>>
    /\ dirs = {}
    /\ golden_file = None
    /\ parsed = None
    /\ \/ /\ pc = "simple_yaml"
          /\ plan_text \in PlanTexts
          /\ scalar_text = <<>>
       \/ /\ pc = "parse_scalar"
          /\ scalar_text \in ScalarTexts
          /\ plan_text = <<>>

(* simple_yaml called on the plan text *)
SimpleYaml ==
    /\ pc = "simple_yaml"
    /\ parsed' = Some(simple_yaml(plan_text))
    /\ pc' = "parsed_plan"
    /\ UNCHANGED <<plan, report, golden, tolerances, idx, pos, entry, ok, diff_summary,
                   tol, compared, result, error, caller, extract, plan_text,
                   scalar_text>>

(* parse_scalar called on the scalar text *)
ParseScalar ==
    /\ pc = "parse_scalar"
    /\ parsed' = Some(parse_scalar(scalar_text))
    /\ pc' = "parsed_scalar"
    /\ UNCHANGED <<plan, report, golden, tolerances, idx, pos, entry, ok, diff_summary,
                   tol, compared, result, error, caller, extract, plan_text,
                   scalar_text>>

NextParser ==
    \/ SimpleYaml
    \/ ParseScalar

SpecParser == InitParser /\ [][NextParser]_vars

(* Where a retained line may stand: at an even width no deeper than the    *)
(* line before it, or two deeper when that line is a key with no value;    *)
(* the first line at width 0.                                              *)
HasSeparator(line) == In(":", line)
OpensBlock(line) == HasSeparator(line) /\ split_key_value(strip(line)).rest = None
Deepest(lines, i) ==
    IF i = 1 THEN 0
    ELSE IF OpensBlock(lines[i - 1]) THEN Indent(lines[i - 1]) + 2
    ELSE Indent(lines[i - 1])
Misplaced(lines, i) ==
    Indent(lines[i]) > Deepest(lines, i) \/ Indent(lines[i]) % 2 # 0
GoodLine(lines, i) ==
    /\ ~Misplaced(lines, i)
    /\ HasSeparator(lines[i])
    /\ ~OpensBlock(lines[i]) =>
           parse_scalar(The(split_key_value(strip(lines[i])).rest)).err = ""
GoodBefore(lines, i) == \A j \in 1..(i - 1) : GoodLine(lines, j)
InvalidIndentation == Raises("ValueError: invalid indentation on line")

(* C15: a retained line deeper than the block being parsed expects makes   *)
(* simple_yaml raise the invalid-indentation error, and no tree is         *)
(* returned; so does a line 4 deep right under a key at 0 with no value,   *)
(* and a line indented under a key that has a scalar value.                *)
C15_OverIndented ==
    pc = "parsed_plan" =>
        LET lines == Retained(plan_text)
        IN  /\ (\E i \in 1..Len(lines) : Misplaced(lines, i)) => The(parsed).err # ""
            /\ \A i \in 1..Len(lines) :
                   (Misplaced(lines, i) /\ GoodBefore(lines, i)) =>
                       The(parsed) = InvalidIndentation
            /\ \A i \in 2..Len(lines) :
                   ( /\ GoodBefore(lines, i)
                     /\ HasSeparator(lines[i - 1])
                     /\ \/ OpensBlock(lines[i - 1]) /\ Indent(lines[i - 1]) = 0
                              /\ Indent(lines[i]) = 4
                        \/ ~OpensBlock(lines[i - 1])
                              /\ Indent(lines[i]) > Indent(lines[i - 1]) ) =>
                       The(parsed) = InvalidIndentation

(* simple_yaml has raised on a line 4 deep right under a key at 0 that has *)
(* no value.                                                               *)
C15_Witness ==
    /\ pc = "parsed_plan"
    /\ The(parsed) = InvalidIndentation
    /\ Len(plan_text) = 2
    /\ OpensBlock(plan_text[1])
    /\ Indent(plan_text[1]) = 0
    /\ Indent(plan_text[2]) = 4
    /\ HasSeparator(plan_text[2])

(* C16: a plan text with a line that is not blank, not a comment and has   *)
(* no ":" never parses to a tree, wherever the line stands and however     *)
(* deep it is indented.                                                    *)
C16_MalformedLine ==
    pc = "parsed_plan" =>
        ((\E i \in 1..Len(plan_text) :
              /\ strip(plan_text[i]) # <<>>
              /\ ~startswith(strip(plan_text[i]), "#")
              /\ ~In(":", plan_text[i]))
         => The(parsed).err # "")

(* simple_yaml has raised on a third line, indented under a key, that has  *)
(* no ":".                                                                 *)
C16_Witness ==
    /\ pc = "parsed_plan"
    /\ The(parsed).err = "ValueError: expected key: value pair"
    /\ Len(plan_text) = 3
    /\ GoodBefore(plan_text, 3)
    /\ Indent(plan_text[3]) = 2
    /\ ~In(":", plan_text[3])

Bracketed(s) == startswith(s, "[") /\ endswith(s, "]")
IsBoolText(s) == lower(s) \in {<<"t", "r", "u", "e">>, <<"f", "a", "l", "s", "e">>}
HasFloatMark(s) == \E i \in 1..Len(s) : s[i] \in {".", "e", "E"}

(* A valid numeral: a float literal when the text holds ".", "e" or "E",   *)
(* an integer literal when it does not.                                    *)
IsNumeral(s) == IF HasFloatMark(s) THEN float(s).err = "" ELSE int(s).err = ""

(* C17: for a text not in brackets, parse_scalar returns a boolean when    *)
(* the text is true or false in any case; otherwise, when the text is a    *)
(* valid numeral, a float if it holds ".", "e" or "E" and an integer if it *)
(* does not; otherwise a string.                                           *)
C17_ScalarClasses ==
    (pc = "parsed_scalar" /\ ~Bracketed(scalar_text)) =>
        /\ The(parsed).err = ""
        /\ The(parsed).v.t =
               IF IsBoolText(scalar_text) THEN "bool"
               ELSE IF IsNumeral(scalar_text)
               THEN IF HasFloatMark(scalar_text) THEN "float" ELSE "int"
               ELSE "str"
        /\ IsBoolText(scalar_text) =>
               The(parsed).v.v = (lower(scalar_text) = <<"t", "r", "u", "e">>)
        /\ (~IsBoolText(scalar_text) /\ IsNumeral(scalar_text)) =>
               The(parsed).v = IF HasFloatMark(scalar_text)
                               THEN float(scalar_text).v
                               ELSE int(scalar_text).v

(* parse_scalar has returned the float 1000.0 for 1E3. *)
C17_Witness ==
    /\ pc = "parsed_scalar"
    /\ scalar_text = <<"1", "E", "3">>
    /\ The(parsed) = Returns(PyFloat([m |-> 1, e |-> 3, s |-> ""]))

(* C18: a text that is not a list, a boolean or a number comes back as a   *)
(* string: without its first and last character when it is surrounded by   *)
(* double quotes (one layer stripped), unchanged otherwise.                *)
C18_OneQuoteLayer ==
    ( /\ pc = "parsed_scalar"
      /\ ~Bracketed(scalar_text)
      /\ ~IsBoolText(scalar_text)
      /\ ~IsNumeral(scalar_text) ) =>
        The(parsed) =
            IF Len(scalar_text) >= 2 /\ startswith(scalar_text, "\"")
                   /\ endswith(scalar_text, "\"")
            THEN Returns(PyStr(SubSeq(scalar_text, 2, Len(scalar_text) - 1)))
            ELSE Returns(PyStr(scalar_text))

(* C19: a text in brackets is parsed as a JSON array after its single      *)
(* quotes are turned into double quotes, and every text that is a valid    *)
(* JSON array parses to that array's value.                                *)
C19_JsonArray ==
    (pc = "parsed_scalar" /\ Bracketed(scalar_text)) =>
        /\ The(parsed) = json_loads(replace(scalar_text, "'", "\""))
        /\ json_loads(scalar_text).err = "" => The(parsed) = json_loads(scalar_text)

(* C20: load_plan runs the minimal parser only when yaml cannot be         *)
(* imported; when yaml can be imported, what yaml gives (tree or           *)
(* exception) is what load_plan gives.                                     *)
C20_FallbackOnlyWhenUnavailable ==
    parsers # <<>> =>
        /\ (\E i \in 1..Len(parsers) : parsers[i] = "minimal") =>
               plan_file.yaml.err = "ImportError"
        /\ plan_file.yaml.err # "ImportError" =>
               /\ load_plan(plan_file).err = plan_file.yaml.err
               /\ load_plan(plan_file).tree = plan_file.yaml.tree
               /\ plan_file.yaml.err = "" => plan = plan_file.yaml.tree
               /\ (plan_file.yaml.err # "" /\ pc # "exited") => error = plan_file.yaml.err

HasScalarEntry ==
    \E i \in 1..Len(RawTolerances) : ~RawTolerances[i].v.isdict
LacksKpis(r) == \E i \in 1..Len(r.jobs) : r.jobs[i].kpis = None

(* C21: a tolerances entry that is not a mapping, or a job without its     *)
(* metrics.kpis mapping, is surfaced as an error: compare never returns a  *)
(* verdict for such a plan or such reports, a default rule or an empty     *)
(* mapping standing in for what is missing.                                *)
C21_ShapeErrorsSurface ==
    pc = "returned" =>
        /\ ~HasScalarEntry
        /\ EqualCounts => (~LacksKpis(report) /\ ~LacksKpis(golden))

----------------------------------------------------------------------------
(* extract_goldens.py: canonicalise_report and main                        *)

(* The characters a key of a report can hold, in code point order. *)
CodePoints ==
    <<" ", "0", "1", "2", "3", "4", "5", "6", "7", "8", "9", "A", "B", "C",
      "D", "E", "F", "G", "H", "I", "J", "K", "L", "M", "N", "O", "P", "Q",
      "R", "S", "T", "U", "V", "W", "X", "Y", "Z", "_", "a", "b", "c", "d",
      "e", "f", "g", "h", "i", "j", "k", "l", "m", "n", "o", "p", "q", "r",
      "s", "t", "u", "v", "w", "x", "y", "z">>
Ord(c) == CHOOSE i \in 1..Len(CodePoints) : CodePoints[i] = c

(* a < b for two str *)
RECURSIVE StrLess(_, _)
StrLess(a, b) ==
    IF b = <<>> THEN FALSE
    ELSE IF a = <<>> THEN TRUE
    ELSE IF Head(a) = Head(b) THEN StrLess(Tail(a), Tail(b))
    ELSE Ord(Head(a)) < Ord(Head(b))

(* sort_keys=True: the items of a dict by key *)
SortedItemsNot(items) == items
RECURSIVE SortedItems(_)
SortedItems(items) ==
    IF items = <<>> THEN <<>>
    ELSE LET least == CHOOSE i \in 1..Len(items) :
                          \A j \in 1..Len(items) : j # i => StrLess(items[i].k, items[j].k)
         IN  <<items[least]>> \o
                 SortedItems(SubSeq(items, 1, least - 1) \o SubSeq(items, least + 1, Len(items)))

DigitChar(d) == <<"0", "1", "2", "3", "4", "5", "6", "7", "8", "9">>[d + 1]

(* str(n) for an int n >= 0 *)
RECURSIVE NatChars(_)
NatChars(n) == IF n < 10 THEN <<DigitChar(n)>> ELSE NatChars(n \div 10) \o <<DigitChar(n % 10)>>

(* int.__repr__ *)
IntChars(n) == IF n < 0 THEN <<"-">> \o NatChars(-n) ELSE NatChars(n)

Zeros(n) == [i \in 1..n |-> "0"]
Spaces(n) == [i \in 1..n |-> " "]

(* float.__repr__, and json's NaN, Infinity, -Infinity *)
FloatChars(f) ==
    LET digits == NatChars(Abs(f.m))
        n == Len(digits)
        point == n + f.e
        sign == IF f.m < 0 THEN <<"-">> ELSE <<>>
        exponent == point - 1
    IN  IF f.s = "nan" THEN <<"N", "a", "N">>
        ELSE IF f.s = "inf" THEN <<"I", "n", "f", "i", "n", "i", "t", "y">>
        ELSE IF f.s = "-inf" THEN <<"-", "I", "n", "f", "i", "n", "i", "t", "y">>
        ELSE IF f.m = 0 THEN <<"0", ".", "0">>
        ELSE IF exponent < -4 \/ exponent >= 16
        THEN sign \o <<digits[1]>> \o (IF n > 1 THEN <<".">> \o Tail(digits) ELSE <<>>)
                  \o <<"e", IF exponent < 0 THEN "-" ELSE "+">>
                  \o (IF Abs(exponent) < 10 THEN <<"0">> ELSE <<>>) \o NatChars(Abs(exponent))
        ELSE IF f.e >= 0 THEN sign \o digits \o Zeros(f.e) \o <<".", "0">>
        ELSE IF point > 0
        THEN sign \o SubSeq(digits, 1, point) \o <<".">> \o SubSeq(digits, point + 1, n)
        ELSE sign \o <<"0", ".">> \o Zeros(-point) \o digits

RECURSIVE json_dumps(_, _)
RECURSIVE DumpItems(_, _, _)

(* The items of a list or dict, one per line at the given level. *)
DumpItems(items, level, keyed) ==
    LET item == IF keyed
                THEN <<"\"">> \o items[1].k \o <<"\"", ":", " ">>
                         \o json_dumps(items[1].v, level)
                ELSE json_dumps(items[1], level)
    IN  IF Len(items) = 1 THEN item
        ELSE item \o <<",", "\n">> \o Spaces(2 * level) \o DumpItems(Tail(items), level, keyed)

(* json.dumps(data, indent=2, sort_keys=True), nested level deep *)
json_dumps(v, level) ==
    CASE v.t = "None" -> <<"n", "u", "l", "l">>
      [] v.t = "bool" -> IF v.v THEN <<"t", "r", "u", "e">> ELSE <<"f", "a", "l", "s", "e">>
      [] v.t = "int" -> IntChars(v.v)
      [] v.t = "float" -> FloatChars(v.v)
      [] v.t = "str" -> <<"\"">> \o v.v \o <<"\"">>
      [] v.t = "list" ->
            IF v.v = <<>> THEN <<"[", "]">>
            ELSE <<"[", "\n">> \o Spaces(2 * (level + 1)) \o DumpItems(v.v, level + 1, FALSE)
                     \o <<"\n">> \o Spaces(2 * level) \o <<"]">>
      [] v.t = "dict" ->
            IF v.v = <<>> THEN <<"{", "}">>
            ELSE <<"{", "\n">> \o Spaces(2 * (level + 1))
                     \o DumpItems(SortedItems(v.v), level + 1, TRUE)
                     \o <<"\n">> \o Spaces(2 * level) \o <<"}">>

(* canonicalise_report(report_path), the file's text given *)
canonicalise_report(text) ==
    LET data == json_loads(text)
    IN  IF data.err # "" THEN data
        ELSE Returns(PyStr(json_dumps(data.v, 0) \o <<"\n">>))


(* plan.get("name") *)
NameKey == <<"n", "a", "m", "e">>
PlanName(tree) == Get(tree.v, NameKey, PyNone)

(* bool(v): the truth value of a Python value *)
TruthyUnlessNone(v) == v.t # "None"
Truthy(v) ==
    CASE v.t = "None" -> FALSE
      [] v.t = "bool" -> v.v
      [] v.t = "int" -> v.v # 0
      [] v.t = "float" -> v.v.m # 0 \/ v.v.s # ""
      [] v.t \in {"str", "list", "dict"} -> v.v # <<>>

(* str(v), as the f-string takes the plan name *)
Str(v) ==
    CASE v.t = "str" -> v.v
      [] v.t = "int" -> IntChars(v.v)
      [] v.t = "float" -> FloatChars(v.v)
      [] v.t = "bool" -> IF v.v THEN <<"T", "r", "u", "e">> ELSE <<"F", "a", "l", "s", "e">>

(* Path("ablation/goldens") / f"{plan_name}.gold.json", or Path(args.out) *)
OutPath(out, plan_name) ==
    IF out # None THEN The(out)
    ELSE [parent |-> "ablation/goldens", name |-> Str(plan_name) \o <<".", "g", "o", "l", "d", ".", "j", "s", "o", "n">>]

(* Inputs: the trees load_plan gives for plans with and without a name     *)
(* (name: demo, no line at all, name: "", name: with nothing under it,     *)
(* name: 0, name: false, tolerances only, name: 7, name: [], a name under  *)
(* tolerances, name: 1.5), and report texts.                               *)
Named(v) == PyDict(<<Item(NameKey, v)>>)
Tolerances == <<"t", "o", "l", "e", "r", "a", "n", "c", "e", "s">>
ExtractPlans ==
    << Named(PyStr(<<"d", "e", "m", "o">>)),
      PyDict(<<>>),
      Named(PyStr(<<>>)),
      Named(PyDict(<<>>)),
      Named(PyInt(0)),
      Named(PyBool(FALSE)),
      PyDict(<<Item(Tolerances, PyDict(<<Item(<<"e">>, PyInt(1))>>))>>),
      Named(PyInt(7)),
      Named(PyList(<<>>)),
      PyDict(<<Item(Tolerances, Named(PyStr(<<"x">>)))>>),
      Named(PyFloat([m |-> 15, e |-> -1, s |-> ""])),
      PyDict(<<Item(Tolerances, PyDict(<<>>)), Item(NameKey, PyStr(<<"a", "_", "1">>))>>) >>
ExtractPlanFiles ==
    [i \in 1..Len(ExtractPlans) |-> FileOf(ExtractPlans[i])]
        \o << PlanFile(Failed("ImportError"), Failed("ValueError")),
               PlanFile(Parsed(Named(PyStr(<<"y">>))), Failed("ValueError")) >>
ReportTexts ==
    {
      <<"{", "\"", "b", "\"", ":", " ", "1", ",", " ", "\"", "a", "\"", ":",
        " ", "[", "2", ".", "5", "0", ",", " ", "n", "u", "l", "l", "]", "}">>,
      <<"{", " ", "\"", "a", "\"", " ", ":", "[", "2", ".", "5", "0", ",",
        "n", "u", "l", "l", "]", " ", ",", "\n", " ", "\"", "b", "\"", ":",
        "1", " ", "}">>,
      <<"{", "\n", " ", " ", "\"", "a", "\"", ":", " ", "[", "\n", " ", " ",
        " ", " ", "2", ".", "5", ",", "\n", " ", " ", " ", " ", "n", "u",
        "l", "l", "\n", " ", " ", "]", ",", "\n", " ", " ", "\"", "b", "\"",
        ":", " ", "1", "\n", "}", "\n">>,
      <<"{", "\"", "b", "\"", ":", " ", "2", ",", " ", "\"", "a", "\"", ":",
        " ", "[", "2", ".", "5", "0", ",", " ", "n", "u", "l", "l", "]", "}">>,
      <<"{", "\"", "a", "\"", ":", " ", "{", "\"", "z", "\"", ":", " ", "t",
        "r", "u", "e", ",", " ", "\"", "k", "\"", ":", " ", "\"", "x", "\"",
        "}", ",", " ", "\"", "_", "\"", ":", " ", "1", "e", "3", "}">>,
      <<"{", "\"", "_", "\"", ":", "1", "e", "3", ",", "\"", "a", "\"", ":",
        "{", "\"", "k", "\"", ":", "\"", "x", "\"", ",", "\"", "z", "\"",
        ":", "t", "r", "u", "e", "}", "}">>,
      <<"{", "\"", "a", "\"", ":", " ", "1", ",", "}">>,
      <<"[", "]">>,
      <<"{", "\"", "a", "\"", ":", " ", "[", "1", ",", " ", "2", "]", "}">>,
      <<"{", "\"", "a", "\"", ":", " ", "[", "2", ",", " ", "1", "]", "}">> }

InitExtract ==
    /\ \E i \in 1..Len(ExtractPlanFiles) : plan_file = ExtractPlanFiles[i]
    /\ plan_text = <<>>
    /\ args_out \in {None, Some([parent |-> "out", name |-> <<"g", ".", "j", "s", "o", "n">>])}
    /\ report_text \in ReportTexts
    /\ dirs = {}
    /\ golden_file = None
    /\ pc = "extract_load_plan"
    /\ plan = PyDict(<<>>)
    /\ parsers = <<>>
    /\ error = ""
    /\ exit_code = None
    /\ scalar_text = <<>>
    /\ parsed = None
    /\ report = Report(<<>>)
    /\ golden = Report(<<>>)
    /\ tolerances = <<>>
    /\ idx = 0
    /\ pos = 0
    /\ entry = NewEntry(0)
    /\ ok = TRUE
    /\ diff_summary = [jobs |-> <<>>]
    /\ tol = DefaultTolerance
    /\ compared = 0
    /\ result = None
    /\ first = None
    /\ args_diff = None
    /\ diff_file = None

(* main: plan = load_plan(plan_path) *)
ExtractLoadPlan ==
    /\ pc = "extract_load_plan"
    /\ LET loaded == load_plan(plan_file)
       IN  /\ parsers' = loaded.parsers
           /\ IF loaded.err = ""
              THEN /\ plan' = loaded.tree
                   /\ pc' = "plan_name"
                   /\ UNCHANGED error
              ELSE /\ error' = loaded.err
                   /\ pc' = "extract_raised"
                   /\ UNCHANGED plan
    /\ UNCHANGED <<extract, parser, report, golden, tolerances, idx, pos, entry, ok,
                   diff_summary, tol, compared, result, first, plan_file, args_diff,
                   diff_file, exit_code>>

(* main: plan_name = plan.get("name"); if not plan_name: raise SystemExit *)
CheckPlanName ==
    /\ pc = "plan_name"
    /\ IF Truthy(PlanName(plan))
       THEN /\ pc' = "mkdir"
            /\ UNCHANGED error
       ELSE /\ error' = "SystemExit: plan missing name field"
            /\ pc' = "extract_raised"
    /\ UNCHANGED <<extract, parser, caller, plan, report, golden, tolerances, idx, pos,
                   entry, ok, diff_summary, tol, compared, result>>

(* main: out_path.parent.mkdir(parents=True, exist_ok=True) *)
Mkdir ==
    /\ pc = "mkdir"
    /\ dirs' = dirs \cup {OutPath(args_out, PlanName(plan)).parent}
    /\ pc' = "write_text"
    /\ UNCHANGED <<parser, caller, plan, report, golden, tolerances, idx, pos, entry, ok,
                   diff_summary, tol, compared, result, error, args_out, report_text,
                   golden_file>>

(* main: out_path.write_text(canonicalise_report(report_path)) *)
WriteGolden ==
    /\ pc = "write_text"
    /\ LET canonical == canonicalise_report(report_text)
       IN  IF canonical.err = ""
           THEN /\ golden_file' = Some([path |-> OutPath(args_out, PlanName(plan)),
                                        text |-> canonical.v.v])
                /\ pc' = "extract_return"
                /\ UNCHANGED error
           ELSE /\ error' = canonical.err
                /\ pc' = "extract_raised"
                /\ UNCHANGED golden_file
    /\ UNCHANGED <<parser, caller, plan, report, golden, tolerances, idx, pos, entry, ok,
                   diff_summary, tol, compared, result, args_out, report_text, dirs>>

(* main: return 0; raise SystemExit(main()) *)
ExtractReturn ==
    /\ pc = "extract_return"
    /\ exit_code' = Some(0)
    /\ pc' = "exited"
    /\ UNCHANGED <<extract, parser, plan, report, golden, tolerances, idx, pos, entry, ok,
                   diff_summary, tol, compared, result, error, first, plan_file, parsers,
                   args_diff, diff_file>>

(* SystemExit with a message, or an uncaught exception: exit status 1. *)
ExtractRaise ==
    /\ pc = "extract_raised"
    /\ exit_code' = Some(1)
    /\ pc' = "exited"
    /\ UNCHANGED <<extract, parser, plan, report, golden, tolerances, idx, pos, entry, ok,
                   diff_summary, tol, compared, result, error, first, plan_file, parsers,
                   args_diff, diff_file>>

NextExtract ==
    \/ ExtractLoadPlan
    \/ CheckPlanName
    \/ Mkdir
    \/ WriteGolden
    \/ ExtractReturn
    \/ ExtractRaise

SpecExtract == InitExtract /\ [][NextExtract]_vars

PlanLoaded == pc # "extract_load_plan" /\ load_plan(plan_file).err = ""
NameMissingOrEmpty ==
    \/ PlanName(plan).t = "None"
    \/ PlanName(plan).t = "str" /\ PlanName(plan).v = <<>>

(* C22: when the loaded plan has no name, or an empty one, main of         *)
(* extract_goldens aborts before it creates a directory or writes a        *)
(* golden file, with or without --out; a directory is created and a        *)
(* golden file written only after a name that is not empty was found.      *)
C22_MissingPlanName ==
    /\ (PlanLoaded /\ NameMissingOrEmpty) =>
           /\ dirs = {}
           /\ golden_file = None
           /\ pc \in {"plan_name", "extract_raised", "exited"}
           /\ pc = "exited" =>
                  (exit_code = {1} /\ error = "SystemExit: plan missing name field")
    /\ (dirs # {} \/ golden_file # None) => (PlanLoaded /\ ~NameMissingOrEmpty)

(* main has aborted on a plan whose name is the empty string, --out given. *)
C22_Witness ==
    /\ pc = "exited"
    /\ PlanLoaded
    /\ PlanName(plan).t = "str"
    /\ PlanName(plan).v = <<>>
    /\ args_out # None
    /\ exit_code = {1}
    /\ dirs = {}
    /\ golden_file = None

(* Two JSON values are equal: the same type and value, lists item by item  *)
(* in order, objects key by key whatever the order of their keys.          *)
RECURSIVE SameJson(_, _)
SameJson(a, b) ==
    /\ a.t = b.t
    /\ CASE a.t = "dict" ->
                /\ Keys(a.v) = Keys(b.v)
                /\ \A key \in Keys(a.v) : SameJson(Get(a.v, key, PyNone), Get(b.v, key, PyNone))
         [] a.t = "list" ->
                /\ Len(a.v) = Len(b.v)
                /\ \A i \in 1..Len(a.v) : SameJson(a.v[i], b.v[i])
         [] OTHER -> a.v = b.v
SameReport(t1, t2) ==
    /\ json_loads(t1).err = ""
    /\ json_loads(t2).err = ""
    /\ SameJson(json_loads(t1).v, json_loads(t2).v)

(* C23: canonicalisation is deterministic and idempotent: a report text    *)
(* that is the same JSON value as the one written, keys in another order   *)
(* or other whitespace, canonicalises to the very text of the golden       *)
(* file, and canonicalising the golden file gives its text again.          *)
C23_Canonical ==
    golden_file # None =>
        /\ canonicalise_report(report_text) = Returns(PyStr(The(golden_file).text))
        /\ \A other \in ReportTexts :
               SameReport(other, report_text) =>
                   canonicalise_report(other) = Returns(PyStr(The(golden_file).text))
        /\ canonicalise_report(The(golden_file).text)
               = Returns(PyStr(The(golden_file).text))

(* A golden file was written from a report text that another report text  *)
(* equals as JSON, with other key order and whitespace.                    *)
C23_Witness ==
    /\ golden_file # None
    /\ The(golden_file).text # report_text
    /\ \E other \in ReportTexts :
           /\ SameReport(other, report_text)
           /\ other # report_text
           /\ other # The(golden_file).text
           /\ json_loads(other).v # json_loads(report_text).v

Discarded(line) == strip(line) = <<>> \/ startswith(strip(line), "#")

(* C24: when simple_yaml returns, it returns a Mapping, for every text;    *)
(* the empty text and a text of only blank and comment lines give the      *)
(* empty Mapping.                                                          *)
C24_RootIsMapping ==
    pc = "parsed_plan" =>
        /\ The(parsed).err = "" => The(parsed).v.t = "dict"
        /\ (\A i \in 1..Len(plan_text) : Discarded(plan_text[i])) =>
               The(parsed) = Returns(PyDict(<<>>))

(* simple_yaml has returned the empty Mapping for a comment line and a     *)
(* blank line.                                                             *)
C24_Witness ==
    /\ pc = "parsed_plan"
    /\ Len(plan_text) = 2
    /\ startswith(strip(plan_text[1]), "#")
    /\ strip(plan_text[2]) = <<>>
    /\ The(parsed) = Returns(PyDict(<<>>))

(* Two Python values are the same: type, value, and for a Mapping its     *)
(* keys in order.                                                          *)
RECURSIVE SamePy(_, _)
SamePy(a, b) ==
    /\ a.t = b.t
    /\ CASE a.t = "dict" ->
                /\ Len(a.v) = Len(b.v)
                /\ \A i \in 1..Len(a.v) : a.v[i].k = b.v[i].k /\ SamePy(a.v[i].v, b.v[i].v)
         [] a.t = "list" ->
                /\ Len(a.v) = Len(b.v)
                /\ \A i \in 1..Len(a.v) : SamePy(a.v[i], b.v[i])
         [] OTHER -> a.v = b.v

SameOutcome(a, b) == a.err = b.err /\ SamePy(a.v, b.v)

(* The tree a well-formed list of retained lines denotes, read off the     *)
(* lines by their widths: the lines lo..hi of a block of width w, each     *)
(* key line owning the maximal run of deeper lines that follows it.        *)
KeyOf(line) == SubSeq(strip(line), 1, Find(strip(line), {":"}) - 1)
ValueText(line) == strip(Drop(strip(line), Find(strip(line), {":"})))

(* The last line of the maximal run of lines deeper than w after line k. *)
RunLast(lines, k, hi, w) ==
    IF \E j \in (k + 1)..hi : Indent(lines[j]) <= w
    THEN (CHOOSE j \in (k + 1)..hi :
              Indent(lines[j]) <= w /\ \A m \in (k + 1)..(j - 1) : Indent(lines[m]) > w) - 1
    ELSE hi

RECURSIVE TreeOf(_, _, _, _, _)
TreeOf(lines, lo, hi, w, acc) ==
    IF lo > hi THEN acc
    ELSE IF ValueText(lines[lo]) = <<>>
    THEN TreeOf(lines, RunLast(lines, lo, hi, w) + 1, hi, w,
                Put(acc, KeyOf(lines[lo]),
                    PyDict(TreeOf(lines, lo + 1, RunLast(lines, lo, hi, w), w + 2, <<>>))))
    ELSE TreeOf(lines, lo + 1, hi, w,
                Put(acc, KeyOf(lines[lo]), parse_scalar(ValueText(lines[lo])).v))

ParsedTree == pc = "parsed_plan" /\ The(parsed).err = ""

(* C25: a key with nothing after its first ":" takes as value the Mapping  *)
(* of exactly the maximal run of deeper lines that follows it, parsed at   *)
(* width + 2 (the empty Mapping when the next line is not deeper), and the *)
(* enclosing block goes on at the first line after that run: no line is    *)
(* parsed twice or skipped.                                                *)
C25_NestedBlock ==
    ParsedTree =>
        LET lines == Retained(plan_text)
        IN  /\ SamePy(The(parsed).v, PyDict(TreeOf(lines, 1, Len(lines), 0, <<>>)))
            /\ \A k \in 1..Len(lines) :
                   OpensBlock(lines[k]) =>
                       LET w == Indent(lines[k])
                           last == RunLast(lines, k, Len(lines), w)
                       IN  /\ parse_block(lines, k, w + 2).err = ""
                           /\ parse_block(lines, k, w + 2).i = last
                           /\ SamePy(PyDict(parse_block(lines, k, w + 2).result),
                                     PyDict(TreeOf(lines, k + 1, last, w + 2, <<>>)))
                           /\ (k = Len(lines) \/ Indent(lines[k + 1]) <= w) =>
                                  parse_block(lines, k, w + 2)
                                      = [err |-> "", result |-> <<>>, i |-> k]

(* simple_yaml has returned a tree for a key with one deeper line under it *)
(* and a line of the outer block after that.                               *)
C25_Witness ==
    /\ ParsedTree
    /\ Len(plan_text) = 3
    /\ Retained(plan_text) = plan_text
    /\ OpensBlock(plan_text[1])
    /\ Indent(plan_text[2]) = 2
    /\ Indent(plan_text[3]) = 0
    /\ Len(The(parsed).v.v) = 2
    /\ The(parsed).v.v[1].v.t = "dict"
    /\ Len(The(parsed).v.v[1].v.v) = 1

Remove(lines, i) == SubSeq(lines, 1, i - 1) \o SubSeq(lines, i + 1, Len(lines))

(* C26: blank lines and lines whose trimmed content starts with "#" are    *)
(* discarded, whatever their indentation: the text without such a line     *)
(* parses to the same tree or fails the same way; any other line is taken  *)
(* as it is, a "#" later in a line being part of its value.                *)
C26_CommentsDiscarded ==
    pc = "parsed_plan" =>
        /\ \A i \in 1..Len(plan_text) :
               Discarded(plan_text[i]) =>
                   SameOutcome(simple_yaml(Remove(plan_text, i)), The(parsed))
        /\ \A i \in 1..Len(plan_text) :
               ( /\ The(parsed).err = ""
                 /\ ~Discarded(plan_text[i])
                 /\ In("#", ValueText(plan_text[i]))
                 /\ Indent(plan_text[i]) = 0
                 /\ \A j \in (i + 1)..Len(plan_text) :
                        Discarded(plan_text[j]) \/ Indent(plan_text[j]) # 0
                            \/ KeyOf(plan_text[j]) # KeyOf(plan_text[i]) ) =>
                   SamePy(Get(The(parsed).v.v, KeyOf(plan_text[i]), PyNone),
                          PyStr(ValueText(plan_text[i])))

(* simple_yaml has returned a tree for a text with an indented comment     *)
(* line, a blank line, and a line whose value holds a "#".                 *)
C26_Witness ==
    /\ ParsedTree
    /\ Len(plan_text) = 3
    /\ \E i \in 1..3 : Indent(plan_text[i]) = 1 /\ startswith(strip(plan_text[i]), "#")
    /\ \E i \in 1..3 : strip(plan_text[i]) = <<>>
    /\ \E i \in 1..3 :
           /\ In("#", ValueText(plan_text[i]))
           /\ ~Discarded(plan_text[i])
           /\ The(parsed).v.v = <<Item(KeyOf(plan_text[i]), PyStr(ValueText(plan_text[i])))>>

RECURSIVE UniqueKeys(_)
UniqueKeys(v) ==
    v.t = "dict" =>
        /\ \A i, j \in 1..Len(v.v) : v.v[i].k = v.v[j].k => i = j
        /\ \A i \in 1..Len(v.v) : UniqueKeys(v.v[i].v)

(* The last line of width 0 with the key of line k. *)
LastOfKey(lines, k) ==
    \A j \in (k + 1)..Len(lines) :
        Indent(lines[j]) # 0 \/ KeyOf(lines[j]) # KeyOf(lines[k])

(* C27: a text whose lines are all well placed and well formed parses,     *)
(* also when a key occurs more than once in a block; the Mapping then      *)
(* holds the key once, with the value of its last occurrence, scalar or    *)
(* nested block; keys are unique in every Mapping, and a line is split at  *)
(* its first ":" only.                                                     *)
C27_LastKeyWins ==
    pc = "parsed_plan" =>
        LET lines == Retained(plan_text)
            top == The(parsed).v.v
        IN  /\ (\A k \in 1..Len(lines) : GoodLine(lines, k)) => The(parsed).err = ""
            /\ The(parsed).err = "" =>
                   /\ UniqueKeys(The(parsed).v)
                   /\ Keys(top) = {KeyOf(lines[k]) : k \in {j \in 1..Len(lines) :
                                                              Indent(lines[j]) = 0}}
                   /\ \A key \in Keys(top) : ~In(":", key)
                   /\ \A k \in 1..Len(lines) :
                          (Indent(lines[k]) = 0 /\ LastOfKey(lines, k)) =>
                              SamePy(Get(top, KeyOf(lines[k]), PyNone),
                                     IF ValueText(lines[k]) = <<>>
                                     THEN PyDict(TreeOf(lines, k + 1,
                                                        RunLast(lines, k, Len(lines), 0), 2,
                                                        <<>>))
                                     ELSE parse_scalar(ValueText(lines[k])).v)

(* simple_yaml has returned a one-key tree for a text where a key has a    *)
(* scalar value first and a nested block after.                            *)
C27_Witness ==
    /\ ParsedTree
    /\ Len(plan_text) = 3
    /\ Retained(plan_text) = plan_text
    /\ Indent(plan_text[1]) = 0
    /\ ValueText(plan_text[1]) # <<>>
    /\ OpensBlock(plan_text[2])
    /\ KeyOf(plan_text[2]) = KeyOf(plan_text[1])
    /\ Indent(plan_text[3]) = 2
    /\ Len(The(parsed).v.v) = 1
    /\ The(parsed).v.v[1].v.t = "dict"
    /\ Len(The(parsed).v.v[1].v.v) = 1

(* The indentations parse_block is called with on texts of the model:      *)
(* 0 from simple_yaml, two more for every nested call.                     *)
Indents == {2 * d : d \in 0..(MaxLines + 1)}

(* C28: parse_block terminates on every list of lines. Whatever index it   *)
(* is started at and whatever indentation it expects, an iteration of its  *)
(* loop either ends the loop (break or error) or moves the cursor strictly *)
(* forward and not past the end: a scalar line moves it by one, a nested   *)
(* call started at i + 1 returns an index of at least i + 1; and the index *)
(* parse_block returns lies between its start and the number of lines.     *)
C28_CursorAdvances ==
    pc = "parsed_plan" =>
        \A lines \in {plan_text, Retained(plan_text)} :
            \A indent \in Indents :
                /\ \A start \in 0..Len(lines) :
                       LET block == parse_block(lines, start, indent)
                       IN  block.err = "" => (start <= block.i /\ block.i <= Len(lines))
                /\ \A i \in 0..(Len(lines) - 1) :
                       LET step == Iteration(lines, i, indent)
                           sub == parse_block(lines, i + 1, indent + 2)
                       IN  /\ step.end \in {"break", "raise", "continue"}
                           /\ step.end = "continue" =>
                                  /\ i < step.next
                                  /\ step.next <= Len(lines)
                                  /\ OpensBlock(lines[i + 1]) =>
                                         (sub.err = "" /\ step.next = sub.i /\ sub.i >= i + 1)
                                  /\ ~OpensBlock(lines[i + 1]) => step.next = i + 1

(* A nested call that stops before the end of the lines, the outer loop    *)
(* going on from there, and a nested call that starts at the end.          *)
C28_Witness ==
    /\ pc = "parsed_plan"
    /\ Len(plan_text) = 3
    /\ plan_text = Retained(plan_text)
    /\ The(parsed).err = ""
    /\ Iteration(plan_text, 0, 0) = [end |-> "continue", next |-> 2]
    /\ Iteration(plan_text, 2, 0) = [end |-> "continue", next |-> 3]
    /\ OpensBlock(plan_text[3])
    /\ parse_block(plan_text, 3, 2).i = 3

(* The number of keys a tree holds, over all its mappings. *)
RECURSIVE CountKeys(_)
CountKeys(items) ==
    IF Len(items) = 0 THEN 0
    ELSE 1 + (IF Head(items).v.t = "dict" THEN CountKeys(Head(items).v.v) ELSE 0)
           + CountKeys(Tail(items))

(* Line k is overwritten: a later line of its block has its key. *)
Shadowed(lines, k) ==
    \E j \in (k + 1)..Len(lines) :
        /\ Indent(lines[j]) = Indent(lines[k])
        /\ KeyOf(lines[j]) = KeyOf(lines[k])
        /\ \A m \in k..j : Indent(lines[m]) >= Indent(lines[k])

(* Line k is not in the tree: it, or a key it is nested under, is overwritten. *)
Dropped(lines, k) ==
    \E j \in 1..k :
        /\ Shadowed(lines, j)
        /\ \/ j = k
           \/ /\ Indent(lines[j]) < Indent(lines[k])
              /\ \A m \in (j + 1)..k : Indent(lines[m]) > Indent(lines[j])

(* C29 as stated: whenever simple_yaml returns a tree, the top-level        *)
(* parse_block call returns the number of retained lines, and every        *)
(* retained line contributed one key to one mapping of the tree, so the    *)
(* tree holds as many keys as there are retained lines.                    *)
C29_EveryLineOneKey ==
    (pc = "parsed_plan" /\ The(parsed).err = "") =>
        LET lines == Retained(plan_text)
        IN  /\ parse_block(lines, 0, 0).i = Len(lines)
            /\ CountKeys(The(parsed).v.v) = Len(lines)

(* C29: whenever simple_yaml returns a tree, the top-level parse_block     *)
(* call returns the number of retained lines, every retained line took     *)
(* one continuing iteration of the loop of one parse_block call, and the   *)
(* tree holds one key for every retained line that is not overwritten: a   *)
(* line whose key is repeated later in its block, and every line nested    *)
(* under it, leaves no key in the tree.                                    *)
C29_LinesConsumedOnce ==
    (pc = "parsed_plan" /\ The(parsed).err = "") =>
        LET lines == Retained(plan_text)
        IN  /\ parse_block(lines, 0, 0).i = Len(lines)
            /\ \A k \in 1..Len(lines) :
                   /\ Iteration(lines, k - 1, Indent(lines[k])).end = "continue"
                   /\ \A indent \in Indents \ {Indent(lines[k])} :
                          Iteration(lines, k - 1, indent).end # "continue"
            /\ CountKeys(The(parsed).v.v)
                   = Cardinality({k \in 1..Len(lines) : ~Dropped(lines, k)})
            /\ (\A k \in 1..Len(lines) : ~Shadowed(lines, k)) =>
                   CountKeys(The(parsed).v.v) = Len(lines)

(* A tree of one key from three retained lines: the block under the first  *)
(* key is overwritten by a later scalar of the same key.                   *)
C29_Witness ==
    /\ pc = "parsed_plan"
    /\ The(parsed).err = ""
    /\ Len(Retained(plan_text)) = 3
    /\ OpensBlock(Retained(plan_text)[1])
    /\ Indent(Retained(plan_text)[2]) = 2
    /\ Shadowed(Retained(plan_text), 1)
    /\ CountKeys(The(parsed).v.v) = 1

(* The keys line k is nested under: the lines whose nested parse_block     *)
(* call, started right after them, went on to line k or further.           *)
Ancestors(lines, k) ==
    {j \in 1..(k - 1) :
        /\ OpensBlock(lines[j])
        /\ parse_block(lines, j, Indent(lines[j]) + 2).err = ""
        /\ parse_block(lines, j, Indent(lines[j]) + 2).i >= k}

(* The nesting depth of line k. *)
Depth(lines, k) == Cardinality(Ancestors(lines, k))

(* The widths of the lines are those of a tree: the first line at 0, every *)
(* width even, a line wider than the one before only by 2 and only under a *)
(* key with an empty value.                                                *)
TreeShaped(lines) ==
    \A k \in 1..Len(lines) :
        /\ Indent(lines[k]) % 2 = 0
        /\ k = 1 => Indent(lines[k]) = 0
        /\ k > 1 =>
               /\ Indent(lines[k]) <= Indent(lines[k - 1]) + 2
               /\ Indent(lines[k]) > Indent(lines[k - 1]) => OpensBlock(lines[k - 1])

(* C30: whenever simple_yaml returns a tree, every retained line is as     *)
(* wide as twice its nesting depth, the first retained line has width 0,   *)
(* and a line is at most 2 wider than the line before it, and wider only   *)
(* when that line is a key with an empty value; a text whose retained      *)
(* lines are not so is rejected with an error.                             *)
C30_WidthIsTwiceDepth ==
    pc = "parsed_plan" =>
        LET lines == Retained(plan_text)
        IN  /\ The(parsed).err = "" =>
                   /\ TreeShaped(lines)
                   /\ \A k \in 1..Len(lines) : Indent(lines[k]) = 2 * Depth(lines, k)
            /\ ~TreeShaped(lines) => The(parsed).err # ""

(* Three retained lines at depths 0, 1 and 2 give a tree. *)
C30_Witness ==
    /\ pc = "parsed_plan"
    /\ The(parsed).err = ""
    /\ Len(Retained(plan_text)) = 3
    /\ Depth(Retained(plan_text), 2) = 1
    /\ Depth(Retained(plan_text), 3) = 2
    /\ Indent(Retained(plan_text)[3]) = 4

====
